---- MODULE Spec2Model ----
(***************************************************************************)
(* DeepClaude: the dual-stream relay of app/deepclaude/deepclaude.py.      *)
(*                                                                         *)
(* One request is modelled.  A text is a sequence of atoms (strings), so   *)
(* that "".join, f-string splicing and emptiness tests are computed and    *)
(* not assumed.  The two upstream providers are the environment: each read *)
(* of a provider stream draws the next event, a close or an error.         *)
(*                                                                         *)
(* asyncio runs the generator and the two tasks on one thread; a step of   *)
(* the model is the code between two suspension points (a provider read or *)
(* a get on an empty queue).  Both queues are unbounded, so put never      *)
(* suspends.                                                               *)
(***************************************************************************)
EXTENDS Integers, Sequences, FiniteSets, TLC

\* ------------------------------------------------------------------ bounds

\* Events a provider stream may deliver before the one that ends the reading
\* (the "content" event of the reasoning stream, a close, an error).
MaxDsEvents == 2
MaxClEvents == 2

\* ------------------------------------------------------------------ inputs

\* Fragments the providers send.
ReasoningFragments == {<<"r1">>, <<"r2">>}
AnswerFragments == {<<"a1">>, <<"a2">>}

\* (content_type, content) pairs of DeepSeekClient.chat
DsEvents ==
    {[kind |-> "reasoning", text |-> t] : t \in ReasoningFragments \cup {<< >>}}
        \cup {[kind |-> "content", text |-> << >>], [kind |-> "other", text |-> << >>]}

\* (content_type, content) pairs of ClaudeClient.chat
ClEvents ==
    {[kind |-> "answer", text |-> t] : t \in AnswerFragments}
        \cup {[kind |-> "other", text |-> <<>>]}

Msg(r, c) == [role |-> r, content |-> c]

\* The message lists a caller may send.
MessageLists ==
    { <<Msg("user", <<"U">>)>>,
      <<Msg("system", <<"S">>), Msg("user", <<"U">>), Msg("assistant", <<"A">>),
        Msg("user", <<"V">>)>>,
      <<Msg("user", <<"U">>), Msg("assistant", <<"A">>)>>,
      <<Msg("system", <<"S">>)>>,
      << >> }

\* deepseek_model.model_id, claude_model.model_id
DeepseekModelId == "deepseek-model"
ClaudeModelId == "claude-model"

\* ------------------------------------------------------------------- state

VARIABLES
    messages,           \* the caller's message list (the dicts are shared)
    chat_id,            \* generated once per request
    created_time,
    output_queue,       \* asyncio.Queue of encoded chunks and None sentinels
    claude_queue,       \* asyncio.Queue: the handoff slot
    reasoning_content,  \* list of reasoning fragments
    finished_tasks,     \* sentinels counted by the consumer loop
    genPc,              \* the generator / the non-streaming coroutine
    dsPc,               \* task process_deepseek
    clPc,               \* task process_claude
    dsRead,             \* what the reasoning provider's stream has delivered
    clRead,             \* what the answer provider's stream has delivered
    dsCalls,            \* calls of deepseek_client.chat: the messages passed
    clCalls,            \* calls of claude_client.chat: messages, system_prompt, reasoning
    yielded,            \* items the caller has received from the generator
    clError,            \* the exception process_claude ended with, if any
    answer,             \* non-streaming: the answer text so far
    input_tokens,       \* non-streaming: encoding.encode(token_content)
    output_tokens,      \* non-streaming: encoding.encode(answer)
    response,           \* non-streaming: the returned response object
    raised,             \* non-streaming: the exception raised to the caller
    request,            \* the message list as the caller sent it (never changed)
    enqueued,           \* history: every put on output_queue, with the leg that made it
    handoffs,           \* history: every text put on claude_queue
    calls,              \* per request: the locals of each of two concurrent calls
    transformed,        \* the message transform applied on its own: input and outcome
    environ,            \* os.environ: the value of each alias, or unset
    selInstance,        \* ModelSelector._instance
    selCache,           \* ModelSelector().cache
    selLast,            \* history: the last select_model call and how it ended
    selFirst,           \* history: per identifier, the first pair it resolved to
    mgrInstance,        \* ConfigManager._instance: 0 is None, else the object
    mgrLock,            \* ConfigManager._lock: free, or the thread holding it
    mgrPc,              \* per thread: where it is in initialize() / instance()
    mgrOp,              \* per thread: the classmethod it called
    mgrBuilt,           \* history: the objects whose constructor completed
    mgrReturned,        \* history: what the instance() calls have returned
    ldPc,               \* _load_config_with_fallback: where the call is
    ldAttempt,          \* the iterations of `for attempt in range(max_retries)` begun
    ldFallback,         \* whether a fallback_creator was passed
    ldLastException,    \* last_exception
    ldOutcome,          \* what the call returned or raised
    ldHistory,          \* history: how each loader call (and fallback) ended
    cfgSystem,          \* ConfigManager._system_config
    cfgModel,           \* ConfigManager._model_config
    savedSystem,        \* what ./config/system.json holds: the last config saved
    savedModel,         \* what ./config/models.json holds
    cfgLast,            \* history: the last call on the manager and how it ended
    fileContent,        \* what the config file holds
    fileMtime,          \* config_path.stat().st_mtime
    ioCache,            \* system_config_cache._cache[config_path], if any
    ioLoad,             \* the load in progress: what it has parsed
    ioLast,             \* history: the last load or save and what it returned
    proxyLast           \* history: the last Proxy validated and how it ended

\* The locals of one call of the core and its history.
requestVars == <<messages, chat_id, created_time, output_queue, claude_queue,
                 reasoning_content, finished_tasks, genPc, dsPc, clPc, dsRead,
                 clRead, dsCalls, clCalls, yielded, clError, answer, input_tokens,
                 output_tokens, response, raised, request, enqueued, handoffs>>

\* The message transform on its own.
transformVars == <<transformed>>

\* What the components around the core use; the core's steps leave it alone.
\* ModelSelector and the environment it reads.
selectorVars == <<environ, selInstance, selCache, selLast, selFirst>>

\* ConfigManager's class attributes and the threads calling its classmethods.
singletonVars == <<mgrInstance, mgrLock, mgrPc, mgrOp, mgrBuilt, mgrReturned>>

\* One call of ConfigManager._load_config_with_fallback.
loadVars == <<ldPc, ldAttempt, ldFallback, ldLastException, ldOutcome, ldHistory>>

\* The ConfigManager instance's two configurations and their files.
updateVars == <<cfgSystem, cfgModel, savedSystem, savedModel, cfgLast>>

\* A config file, its cache entry and the loads and saves of io.py.
ioVars == <<fileContent, fileMtime, ioCache, ioLoad, ioLast>>

\* The validation of one Proxy model.
proxyVars == <<proxyLast>>

libVars == <<transformVars, selectorVars, singletonVars, loadVars, updateVars,
             ioVars, proxyVars>>

vars == <<requestVars, calls, libVars>>

\* What each component's steps leave alone.
exceptTransform ==
    <<requestVars, calls, selectorVars, singletonVars, loadVars, updateVars, ioVars,
      proxyVars>>
exceptSelector ==
    <<requestVars, calls, transformVars, singletonVars, loadVars, updateVars, ioVars,
      proxyVars>>
exceptSingleton ==
    <<requestVars, calls, transformVars, selectorVars, loadVars, updateVars, ioVars,
      proxyVars>>
exceptLoad ==
    <<requestVars, calls, transformVars, selectorVars, singletonVars, updateVars, ioVars,
      proxyVars>>
exceptUpdate ==
    <<requestVars, calls, transformVars, selectorVars, singletonVars, loadVars, ioVars,
      proxyVars>>
exceptIo ==
    <<requestVars, calls, transformVars, selectorVars, singletonVars, loadVars,
      updateVars, proxyVars>>
exceptProxy ==
    <<requestVars, calls, transformVars, selectorVars, singletonVars, loadVars,
      updateVars, ioVars>>

\* What chat_completions_without_stream alone uses.
nsVars == <<answer, input_tokens, output_tokens, response, raised>>

\* ----------------------------------------------------------------- helpers

None == [type |-> "None"]

Last(seq) == seq[Len(seq)]

RECURSIVE Join(_)
\* "".join(fragments)
Join(frags) == IF frags = << >> THEN << >> ELSE Head(frags) \o Join(Tail(frags))

\* reasoning = "获取推理内容失败"
ReasoningUnavailable == <<"PLACEHOLDER">>

\* The end-of-stream marker b"data: [DONE]\n\n"
DoneMarker == [type |-> "done"]

\* The reasoning chunk labelled with the answer model's id.
ReasoningChunk_AnswerModel(id, created, content) ==
    [type |-> "chunk",
     id |-> id,
     object |-> "chat.completion.chunk",
     created |-> created,
     model |-> ClaudeModelId,
     delta |-> [role |-> "assistant", reasoning_content |-> content, content |-> << >>]]

\* f"data: {json.dumps(response)}\n\n".encode("utf-8") of a reasoning event
ReasoningChunk(id, created, content) ==
    [type |-> "chunk",
     id |-> id,
     object |-> "chat.completion.chunk",
     created |-> created,
     model |-> DeepseekModelId,
     delta |-> [role |-> "assistant", reasoning_content |-> content, content |-> << >>]]

\* f"data: {json.dumps(response)}\n\n".encode("utf-8") of an answer event
AnswerChunk(id, created, content) ==
    [type |-> "chunk",
     id |-> id,
     object |-> "chat.completion.chunk",
     created |-> created,
     model |-> ClaudeModelId,
     delta |-> [role |-> "assistant", content |-> content]]

\* if not reasoning: reasoning = <placeholder>
UsableReasoning(reasoning) ==
    IF reasoning = << >> THEN ReasoningUnavailable ELSE reasoning

\* combined_content
CombinedContent(reasoning) ==
    <<"\n Here's my another model's reasoning process:\n">> \o reasoning
        \o <<"\n\n\n Based on this reasoning, provide your response directly to me:">>

\* fixed_content
FixedContent(original_content, reasoning) ==
    <<"Here's my original input:\n">> \o original_content \o <<"\n\n">>
        \o CombinedContent(reasoning)

IsSystem(m) == m.role = "system"
NotSystem(m) == m.role # "system"

\* non_system_messages
NonSystemMessages(msgs) == SelectSeq(msgs, NotSystem)

RECURSIVE SystemContent(_)
\* system_content += message.get("content", "") + "\n", over the system messages
SystemContent(msgs) ==
    IF msgs = << >> THEN << >>
    ELSE IF IsSystem(Head(msgs))
         THEN Head(msgs).content \o <<"\n">> \o SystemContent(Tail(msgs))
         ELSE SystemContent(Tail(msgs))

Whitespace == {"\n", " "}

RECURSIVE LStrip(_)
LStrip(t) == IF t # << >> /\ Head(t) \in Whitespace THEN LStrip(Tail(t)) ELSE t

RECURSIVE RStrip(_)
RStrip(t) ==
    IF t # << >> /\ t[Len(t)] \in Whitespace THEN RStrip(SubSeq(t, 1, Len(t) - 1)) ELSE t

\* str.strip()
Strip(t) == RStrip(LStrip(t))

\* system_content.strip() if system_content else None
SystemPrompt(msgs) ==
    LET system_content == SystemContent(msgs)
    IN  IF system_content # << >>
        THEN [isNone |-> FALSE, text |-> Strip(system_content)]
        ELSE [isNone |-> TRUE, text |-> << >>]

\* The position in msgs of claude_messages[-1]; 0 when claude_messages is empty.
LastNonSystemIndex(msgs) ==
    LET idx == {i \in 1..Len(msgs) : NotSystem(msgs[i])}
    IN  IF idx = {} THEN 0 ELSE CHOOSE i \in idx : \A j \in idx : j <= i

\* SpliceLast on claude_messages[0]: the first message left is rewritten.
SpliceLast_FirstMessage(msgs, reasoning) ==
    LET i == CHOOSE k \in 1..Len(msgs) :
                 NotSystem(msgs[k]) /\ \A j \in 1..(k - 1) : IsSystem(msgs[j])
    IN  [msgs EXCEPT ![i].content = FixedContent(msgs[i].content, reasoning)]

\* last_message["content"] = fixed_content: the dict is the caller's own
SpliceLast(msgs, reasoning) ==
    LET i == LastNonSystemIndex(msgs)
    IN  [msgs EXCEPT ![i].content = FixedContent(msgs[i].content, reasoning)]

RECURSIVE JoinWith(_, _)
\* sep.join(texts)
JoinWith(sep, texts) ==
    IF texts = << >> THEN << >>
    ELSE IF Len(texts) = 1 THEN Head(texts)
    ELSE Head(texts) \o sep \o JoinWith(sep, Tail(texts))

\* encoding.encode(text): one token per atom of the text
Encode(text) == [i \in 1..Len(text) |-> [token |-> text[i]]]

\* token_content: "\n".join of the contents of claude_messages
TokenContent(claude_messages) ==
    JoinWith(<<"\n">>, [i \in 1..Len(claude_messages) |-> claude_messages[i].content])

NoResponse == [type |-> "none"]

\* The dict chat_completions_without_stream returns
ChatResponse(id, created, answer_text, reasoning, in_tokens, out_tokens) ==
    [type |-> "response",
     id |-> id,
     object |-> "chat.completion",
     created |-> created,
     model |-> ClaudeModelId,
     message |-> [role |-> "assistant", content |-> answer_text,
                  reasoning_content |-> reasoning],
     finish_reason |-> "stop",
     usage |-> [prompt_tokens |-> Len(in_tokens),
                completion_tokens |-> Len(out_tokens),
                total_tokens |-> Len(in_tokens \o out_tokens)]]

\* ------------------------------- inputs and locals of two concurrent calls

\* Two calls of chat_completions_with_stream on the same instance, their
\* coroutines and tasks interleaved by the one event loop.
Requests == {1, 2}

\* Each request's message list and each provider stream's fragments are its
\* own, so where a text came from can be read off the text.
PairMessages(r) == <<Msg("user", IF r = 1 THEN <<"U-1">> ELSE <<"U-2">>)>>
PairReasoningFragment(r) == IF r = 1 THEN <<"r-1">> ELSE <<"r-2">>
PairAnswerFragment(r) == IF r = 1 THEN <<"a-1">> ELSE <<"a-2">>

\* What the reasoning provider may send on request r's stream, end included.
PairDsScripts(r) ==
    LET R == [kind |-> "reasoning", text |-> PairReasoningFragment(r)]
    IN  { <<R, R, [kind |-> "content", text |-> << >>]>>,
          <<R, [kind |-> "error", text |-> << >>]>>,
          <<[kind |-> "close", text |-> << >>]>> }

\* What the answer provider may send on request r's stream, end included.
PairClScripts(r) ==
    LET A == [kind |-> "answer", text |-> PairAnswerFragment(r)]
    IN  { <<A, A, [kind |-> "close", text |-> << >>]>>,
          <<[kind |-> "error", text |-> << >>]>> }

\* e may come next on a stream that has sent `read`.
MayCome(scripts, read, e) ==
    \E s \in scripts :
        /\ Len(read) < Len(s)
        /\ SubSeq(s, 1, Len(read) + 1) = Append(read, e)

\* f"chatcmpl-{hex(int(time.time() * 1000))[2:]}": two requests of the same
\* millisecond get the same id.
ChatIds == {"chatcmpl-1", "chatcmpl-2"}

\* The locals and closures of one call before its first step.
PairCall(r) ==
    [messages |-> PairMessages(r),
     chat_id |-> "unset",
     created_time |-> "unset",
     output_queue |-> << >>,
     claude_queue |-> << >>,
     reasoning_content |-> << >>,
     finished_tasks |-> 0,
     genPc |-> "init",
     dsPc |-> "idle",
     clPc |-> "idle",
     dsRead |-> << >>,
     clRead |-> << >>,
     dsCalls |-> << >>,
     clCalls |-> << >>,
     yielded |-> << >>,
     clError |-> "none"]

NoCalls == [r \in Requests |-> PairCall(r)]

\* ------------------------------------------------- the message transform

\* The longest message list the transform is applied to.
MaxMessages == 3

\* Contents a message may have: none, blank, a word.
TransformContents == {<< >>, <<" ">>, <<"x">>}

TransformMessages ==
    {Msg(role, c) : role \in {"system", "user", "assistant"}, c \in TransformContents}

\* Every message list of up to MaxMessages messages
TransformInputs == UNION {[1..n -> TransformMessages] : n \in 0..MaxMessages}

NotTransformed == [kind |-> "idle"]

\* Lines 132-181 as a function of messages and the reasoning received: what
\* claude_client.chat is called with, or the ValueError raised before it.
StreamTransform(msgs, reasoning) ==
    IF NonSystemMessages(msgs) = << >>
    THEN [kind |-> "raise", mode |-> "stream", input |-> msgs,
          error |-> "EmptyMessageList"]
    ELSE IF msgs[LastNonSystemIndex(msgs)].role # "user"
    THEN [kind |-> "raise", mode |-> "stream", input |-> msgs,
          error |-> "LastMessageNotUser"]
    ELSE [kind |-> "call", mode |-> "stream", input |-> msgs,
          messages |-> NonSystemMessages(SpliceLast(msgs, UsableReasoning(reasoning))),
          system_prompt |-> SystemPrompt(msgs)]

\* Lines 265-318 as a function of messages and the reasoning joined.
NonStreamTransform(msgs, reasoning) ==
    LET i == LastNonSystemIndex(msgs)
    IN  IF i = 0
        THEN [kind |-> "raise", mode |-> "non-stream", input |-> msgs,
              error |-> "IndexError"]
        ELSE [kind |-> "call", mode |-> "non-stream", input |-> msgs,
              messages |-> NonSystemMessages(IF msgs[i].role = "user"
                                             THEN SpliceLast(msgs, reasoning)
                                             ELSE msgs),
              system_prompt |-> SystemPrompt(msgs)]

\* ------------------------------------------------------------ ModelSelector

\* A string is a sequence of characters; "MODEL_" is kept as one atom.
\* Identifiers a caller may ask for: two spellings of the same pair of
\* aliases and one without "+".
ModelIds ==
    { <<"r", "-", "x", "+", "a">>,
      <<"r", "_", "x", "+", "a">>,
      <<"r", "-", "x">> }

\* The aliases the deployment may define, and the names they may stand for.
EnvKeys == { <<"MODEL_", "R", "_", "X">>, <<"MODEL_", "A">> }
EnvNames == {"n1", "n2"}

\* A variable that is not set
Unset == "unset"

\* No cache entry / no pair yet
NoEntry == [kind |-> "none"]

\* model_id.replace("-", "_")
ReplaceDash(t) == [i \in 1..Len(t) |-> IF t[i] = "-" THEN "_" ELSE t[i]]

\* str.upper(), character by character
UpperChar(c) ==
    CASE c = "r" -> "R"
      [] c = "x" -> "X"
      [] c = "a" -> "A"
      [] OTHER -> c

Upper(t) == [i \in 1..Len(t) |-> UpperChar(t[i])]

RECURSIVE SplitPlus(_)
\* str.split("+"): the parts between the "+" characters, at least one part
SplitPlus(t) ==
    LET plus == {i \in 1..Len(t) : t[i] = "+"}
    IN  IF plus = {} THEN <<t>>
        ELSE LET i == CHOOSE j \in plus : \A k \in plus : j <= k
             IN  <<SubSeq(t, 1, i - 1)>> \o SplitPlus(SubSeq(t, i + 1, Len(t)))

\* os.getenv(alias): None when the variable is not set
Getenv(env, alias) ==
    IF alias \in DOMAIN env /\ env[alias] # Unset
    THEN [isNone |-> FALSE, value |-> env[alias]]
    ELSE [isNone |-> TRUE, value |-> Unset]

\* _parse_model_id up to its cache lookup: the pair read from the environment,
\* or the exception raised
ParseModelId(env, model_id) ==
    LET parts == SplitPlus(ReplaceDash(model_id))
    IN  IF Len(parts) < 2
        THEN [kind |-> "raise", error |-> "IndexError"]
        ELSE LET deepseek_name == Getenv(env, <<"MODEL_">> \o Upper(parts[1]))
                 claude_name == Getenv(env, <<"MODEL_">> \o Upper(parts[2]))
             IN  IF deepseek_name.isNone \/ claude_name.isNone
                 THEN [kind |-> "raise", error |-> "ValueError"]
                 ELSE [kind |-> "pair",
                       pair |-> <<deepseek_name.value, claude_name.value>>]

\* ------------------------------------------------ ConfigManager, singleton

\* Threads that call ConfigManager.initialize() and ConfigManager.instance()
ManagerThreads == {"t1", "t2", "t3"}

\* threading.Lock(): not held
Free == "free"

\* ---------------------------------- ConfigManager._load_config_with_fallback

\* max_retries = 3
max_retries == 3

\* Configurations a loader may return
LoadedConfigs == {"config-a", "config-b"}

\* What fallback_creator returns when it succeeds
DefaultConfig == "config-default"

\* ------------------------------------------ ConfigManager: update and get

\* Configurations a caller may pass to update_system_config / update_model_config;
\* "system-0" and "model-0" are the ones the constructor loaded.
SystemConfigs == {"system-0", "system-1", "system-2"}
ModelConfigs == {"model-0", "model-1", "model-2"}

\* --------------------------------------------------- io.py: file and cache

\* How many times the file is written (each write moves st_mtime on).
MaxWrites == 3

\* Configurations the file may be given, by a save or from outside.
FileConfigs == {"file-0", "file-1", "file-2"}

\* json.dump(config.dict(), tf): the file's text for a configuration
ToJson(config) == [json |-> config]

\* SystemConfig(**json.load(f)): the configuration a file's text stands for
FromJson(text) == text.json

\* ------------------------------------------------- system_config.py: Proxy

\* The longest port text tried.
MaxPortLen == 5

\* The characters a port text is made of: decimal digits and one that is not.
DigitChars == {"0", "1", "3", "5", "6"}
PortChars == DigitChars \cup {"x"}

\* The port texts and host texts tried.
PortTexts == UNION {[1..n -> PortChars] : n \in 0..MaxPortLen}
HostTexts == {<< >>, <<"h">>}

\* The proxy_address values tried: no colon, one colon, two colons.
ProxyAddresses ==
    {h \o <<":">> \o p : h \in HostTexts, p \in PortTexts}
        \cup {h \o p : h \in HostTexts, p \in {<< >>, <<"1">>}}
        \cup {h \o <<":">> \o p \o <<":">> \o q :
                 h \in HostTexts, p \in {<< >>, <<"1">>}, q \in {<< >>, <<"1">>}}

RECURSIVE SplitColon(_)
\* str.split(":"): the parts between the ":" characters, at least one part
SplitColon(t) ==
    LET colon == {i \in 1..Len(t) : t[i] = ":"}
    IN  IF colon = {} THEN <<t>>
        ELSE LET i == CHOOSE j \in colon : \A k \in colon : j <= k
             IN  <<SubSeq(t, 1, i - 1)>> \o SplitColon(SubSeq(t, i + 1, Len(t)))

\* str.isdigit(): at least one character and every character a digit
IsDigit(t) == Len(t) > 0 /\ \A i \in 1..Len(t) : t[i] \in DigitChars

\* The value of one decimal digit
DigitValue(c) ==
    CASE c = "0" -> 0 [] c = "1" -> 1 [] c = "3" -> 3 [] c = "5" -> 5 [] c = "6" -> 6

RECURSIVE IntOf(_)
\* int(port): the decimal value of a text of digits
IntOf(t) ==
    IF Len(t) = 0 THEN 0
    ELSE 10 * IntOf(SubSeq(t, 1, Len(t) - 1)) + DigitValue(t[Len(t)])

\* Proxy.validate_proxy: "returned" when the model is accepted, else the
\* check that raised
validate_proxy(proxy_open, proxy_address) ==
    IF ~proxy_open THEN "returned"
    ELSE IF Len(proxy_address) = 0 THEN "address required"
    ELSE LET parts == SplitColon(proxy_address)
         IN  IF Len(parts) # 2 THEN "not host:port"
             ELSE LET port == parts[2]
                  IN  IF ~IsDigit(port) THEN "port not numeric"
                      ELSE LET port_num == IntOf(port)
                           IN  IF 0 > port_num \/ port_num > 65535
                               THEN "port out of range"
                               ELSE "returned"

\* -------------------------------------------------------------------- Init

Init ==
    /\ request \in MessageLists
    /\ messages = request
    /\ chat_id = "unset"
    /\ created_time = "unset"
    /\ output_queue = << >>
    /\ claude_queue = << >>
    /\ reasoning_content = << >>
    /\ finished_tasks = 0
    /\ genPc = "init"
    /\ dsPc = "idle"
    /\ clPc = "idle"
    /\ dsRead = << >>
    /\ clRead = << >>
    /\ dsCalls = << >>
    /\ clCalls = << >>
    /\ yielded = << >>
    /\ clError = "none"
    /\ answer = << >>
    /\ input_tokens = << >>
    /\ output_tokens = << >>
    /\ response = NoResponse
    /\ raised = "none"
    /\ enqueued = << >>
    /\ handoffs = << >>
    /\ calls = NoCalls
    /\ transformed = NotTransformed
    /\ environ = [k \in EnvKeys |-> Unset]
    /\ selInstance = "None"
    /\ selCache = [id \in ModelIds |-> NoEntry]
    /\ selLast = [kind |-> "none"]
    /\ selFirst = [id \in ModelIds |-> NoEntry]
    /\ mgrInstance = 0
    /\ mgrLock = Free
    /\ mgrPc = [t \in ManagerThreads |-> "idle"]
    /\ mgrOp = [t \in ManagerThreads |-> "none"]
    /\ mgrBuilt = { }
    /\ mgrReturned = { }
    /\ ldPc = "idle"
    /\ ldAttempt = 0
    /\ ldFallback = FALSE
    /\ ldLastException = "None"
    /\ ldOutcome = [kind |-> "none"]
    /\ ldHistory = << >>
    /\ cfgSystem = "system-0"
    /\ cfgModel = "model-0"
    /\ savedSystem = "system-0"
    /\ savedModel = "model-0"
    /\ cfgLast = [op |-> "none"]
    /\ fileContent = ToJson("file-0")
    /\ fileMtime = 0
    /\ ioCache = [kind |-> "none"]
    /\ ioLoad = [pc |-> "idle"]
    /\ ioLast = [op |-> "none"]
    /\ proxyLast = [op |-> "none"]

\* ------------------------------------ chat_completions_with_stream: set-up

\* The first __anext__: ids, queues, the two tasks; then the generator
\* suspends in output_queue.get() and process_claude in claude_queue.get().
GenStart ==
    /\ genPc = "init"
    /\ chat_id' = "chatcmpl-1"
    /\ created_time' = "t1"
    /\ genPc' = "get"
    /\ dsPc' = "start"
    /\ clPc' = "wait"
    /\ UNCHANGED <<messages, output_queue, claude_queue, reasoning_content,
                   finished_tasks, dsRead, clRead, dsCalls, clCalls, yielded,
                   clError, request, nsVars, enqueued, handoffs, calls, libVars>>

\* ------------------------------------------------------- process_deepseek

\* self.deepseek_client.chat(deepseek_model, messages, ...): the stream is opened
DsStart ==
    /\ dsPc = "start"
    /\ dsCalls' = Append(dsCalls, messages)
    /\ dsPc' = "read"
    /\ UNCHANGED <<messages, chat_id, created_time, output_queue, claude_queue,
                   reasoning_content, finished_tasks, genPc, clPc, dsRead, clRead,
                   clCalls, yielded, clError, request, nsVars, enqueued, handoffs, calls, libVars>>

\* if content_type == "reasoning": accumulate and forward
DsReadReasoning ==
    /\ dsPc = "read"
    /\ Len(dsRead) < MaxDsEvents
    /\ \E e \in DsEvents :
        /\ e.kind = "reasoning"
        /\ dsRead' = Append(dsRead, e)
        /\ reasoning_content' = Append(reasoning_content, e.text)
        /\ output_queue' =
             Append(output_queue, ReasoningChunk(chat_id, created_time, e.text))
    /\ UNCHANGED <<messages, chat_id, created_time, claude_queue, finished_tasks,
                   genPc, dsPc, clPc, clRead, dsCalls, clCalls, yielded, clError,
                   request, nsVars, handoffs, calls, libVars>>
    /\ enqueued' = Append(enqueued, [leg |-> "reasoning", item |-> Last(output_queue')])

\* DsReadContent without the break: the text is handed over and the loop goes
\* on reading.
DsReadContent_NoBreak ==
    /\ dsPc = "read"
    /\ Len(dsRead) < MaxDsEvents
    /\ \E e \in DsEvents :
        /\ e.kind = "content"
        /\ dsRead' = Append(dsRead, e)
    /\ claude_queue' = Append(claude_queue, Join(reasoning_content))
    /\ handoffs' = Append(handoffs, Join(reasoning_content))
    /\ UNCHANGED <<messages, chat_id, created_time, output_queue, reasoning_content,
                   finished_tasks, genPc, dsPc, clPc, clRead, dsCalls, clCalls,
                   yielded, clError, request, nsVars, enqueued, calls, libVars>>

\* elif content_type == "content": hand the text over, break, put the sentinel
DsReadContent ==
    /\ dsPc = "read"
    /\ \E e \in DsEvents :
        /\ e.kind = "content"
        /\ dsRead' = Append(dsRead, e)
    /\ claude_queue' = Append(claude_queue, Join(reasoning_content))
    /\ output_queue' = Append(output_queue, None)
    /\ dsPc' = "done"
    /\ UNCHANGED <<messages, chat_id, created_time, reasoning_content,
                   finished_tasks, genPc, clPc, clRead, dsCalls, clCalls, yielded,
                   clError, request, nsVars, calls, libVars>>
    /\ enqueued' = Append(enqueued, [leg |-> "reasoning", item |-> None])
    /\ handoffs' = Append(handoffs, Join(reasoning_content))

\* any other content_type: neither branch is taken
DsReadOther ==
    /\ dsPc = "read"
    /\ Len(dsRead) < MaxDsEvents
    /\ \E e \in DsEvents :
        /\ e.kind \notin {"reasoning", "content"}
        /\ dsRead' = Append(dsRead, e)
    /\ UNCHANGED <<messages, chat_id, created_time, output_queue, claude_queue,
                   reasoning_content, finished_tasks, genPc, dsPc, clPc, clRead,
                   dsCalls, clCalls, yielded, clError, request, nsVars, enqueued, handoffs, calls, libVars>>

\* The stream closes: the async for ends, then output_queue.put(None)
DsStreamEnd ==
    /\ dsPc = "read"
    /\ dsRead' = Append(dsRead, [kind |-> "close", text |-> << >>])
    /\ output_queue' = Append(output_queue, None)
    /\ dsPc' = "done"
    /\ UNCHANGED <<messages, chat_id, created_time, claude_queue,
                   reasoning_content, finished_tasks, genPc, clPc, clRead, dsCalls,
                   clCalls, yielded, clError, request, nsVars, handoffs, calls, libVars>>
    /\ enqueued' = Append(enqueued, [leg |-> "reasoning", item |-> None])

\* DsStreamError without claude_queue.put(""): the except clause only re-raises.
DsStreamError_NoHandoff ==
    /\ dsPc = "read"
    /\ dsRead' = Append(dsRead, [kind |-> "error", text |-> << >>])
    /\ dsPc' = "failed"
    /\ UNCHANGED <<messages, chat_id, created_time, output_queue, claude_queue,
                   reasoning_content, finished_tasks, genPc, clPc, clRead, dsCalls,
                   clCalls, yielded, clError, request, nsVars, enqueued, handoffs, calls, libVars>>

\* DsStreamError with one retry: the first failure opens the stream again.
DsStreamError_Retries ==
    /\ dsPc = "read"
    /\ dsRead' = Append(dsRead, [kind |-> "error", text |-> << >>])
    /\ IF Len(dsCalls) < 2
       THEN /\ dsPc' = "start"
            /\ UNCHANGED <<claude_queue, handoffs>>
       ELSE /\ claude_queue' = Append(claude_queue, << >>)
            /\ dsPc' = "failed"
            /\ handoffs' = Append(handoffs, << >>)
    /\ UNCHANGED <<messages, chat_id, created_time, output_queue,
                   reasoning_content, finished_tasks, genPc, clPc, clRead, dsCalls,
                   clCalls, yielded, clError, request, nsVars, enqueued, calls, libVars>>

\* The provider raises: except -> claude_queue.put(""), raise
DsStreamError ==
    /\ dsPc = "read"
    /\ dsRead' = Append(dsRead, [kind |-> "error", text |-> << >>])
    /\ claude_queue' = Append(claude_queue, << >>)
    /\ dsPc' = "failed"
    /\ UNCHANGED <<messages, chat_id, created_time, output_queue,
                   reasoning_content, finished_tasks, genPc, clPc, clRead, dsCalls,
                   clCalls, yielded, clError, request, nsVars, enqueued, calls, libVars>>
    /\ handoffs' = Append(handoffs, << >>)

\* --------------------------------------------------------- process_claude

\* claude_queue.get() returns; the message list is built.  With no message
\* left after the system messages are removed: ValueError.
ClBuildEmpty ==
    /\ clPc = "wait"
    /\ claude_queue # << >>
    /\ NonSystemMessages(messages) = << >>
    /\ claude_queue' = Tail(claude_queue)
    /\ clPc' = "failed"
    /\ clError' = "EmptyMessageList"
    /\ UNCHANGED <<messages, chat_id, created_time, output_queue,
                   reasoning_content, finished_tasks, genPc, dsPc, dsRead, clRead,
                   dsCalls, clCalls, yielded, request, nsVars, enqueued, handoffs, calls, libVars>>

\* ClBuildNotUser without the role check of lines 156-157: the answer stream is
\* opened with the messages as they are.
ClBuildNotUser_Proceeds ==
    /\ clPc = "wait"
    /\ claude_queue # << >>
    /\ NonSystemMessages(messages) # << >>
    /\ messages[LastNonSystemIndex(messages)].role # "user"
    /\ claude_queue' = Tail(claude_queue)
    /\ clCalls' = Append(clCalls,
           [messages |-> NonSystemMessages(messages),
            system_prompt |-> SystemPrompt(messages)])
    /\ clPc' = "read"
    /\ UNCHANGED <<messages, chat_id, created_time, output_queue,
                   reasoning_content, finished_tasks, genPc, dsPc, dsRead, clRead,
                   dsCalls, clError, yielded, request, nsVars, enqueued, handoffs, calls, libVars>>

\* The last remaining message is not the user's: ValueError.
ClBuildNotUser ==
    /\ clPc = "wait"
    /\ claude_queue # << >>
    /\ NonSystemMessages(messages) # << >>
    /\ messages[LastNonSystemIndex(messages)].role # "user"
    /\ claude_queue' = Tail(claude_queue)
    /\ clPc' = "failed"
    /\ clError' = "LastMessageNotUser"
    /\ UNCHANGED <<messages, chat_id, created_time, output_queue,
                   reasoning_content, finished_tasks, genPc, dsPc, dsRead, clRead,
                   dsCalls, clCalls, yielded, request, nsVars, enqueued, handoffs, calls, libVars>>

\* ClBuild without the wait on claude_queue (get_nowait in place of get): the
\* answer stream is opened whether or not the handoff has been written.
ClBuild_NoWait ==
    /\ clPc = "wait"
    /\ NonSystemMessages(messages) # << >>
    /\ messages[LastNonSystemIndex(messages)].role = "user"
    /\ LET reasoning == IF claude_queue = << >> THEN ReasoningUnavailable
                        ELSE UsableReasoning(Head(claude_queue))
       IN  /\ messages' = SpliceLast(messages, reasoning)
           /\ clCalls' = Append(clCalls,
                  [messages |-> NonSystemMessages(messages'),
                   system_prompt |-> SystemPrompt(messages)])
    /\ claude_queue' = IF claude_queue = << >> THEN << >> ELSE Tail(claude_queue)
    /\ clPc' = "read"
    /\ UNCHANGED <<chat_id, created_time, output_queue, reasoning_content,
                   finished_tasks, genPc, dsPc, dsRead, clRead, dsCalls, yielded,
                   clError, request, nsVars, enqueued, handoffs, calls, libVars>>

\* The reasoning is spliced into the last message and the answer stream opened:
\* self.claude_client.chat(claude_model, messages=claude_messages, ...,
\* system_prompt=system_content)
ClBuild ==
    /\ clPc = "wait"
    /\ claude_queue # << >>
    /\ NonSystemMessages(messages) # << >>
    /\ messages[LastNonSystemIndex(messages)].role = "user"
    /\ LET reasoning == UsableReasoning(Head(claude_queue))
       IN  /\ messages' = SpliceLast(messages, reasoning)
           /\ clCalls' = Append(clCalls,
                  [messages |-> NonSystemMessages(messages'),
                   system_prompt |-> SystemPrompt(messages)])
    /\ claude_queue' = Tail(claude_queue)
    /\ clPc' = "read"
    /\ UNCHANGED <<chat_id, created_time, output_queue, reasoning_content,
                   finished_tasks, genPc, dsPc, dsRead, clRead, dsCalls, yielded,
                   clError, request, nsVars, enqueued, handoffs, calls, libVars>>

\* if content_type == "answer": forward
ClReadAnswer ==
    /\ clPc = "read"
    /\ Len(clRead) < MaxClEvents
    /\ \E e \in ClEvents :
        /\ e.kind = "answer"
        /\ clRead' = Append(clRead, e)
        /\ output_queue' =
             Append(output_queue, AnswerChunk(chat_id, created_time, e.text))
    /\ UNCHANGED <<messages, chat_id, created_time, claude_queue,
                   reasoning_content, finished_tasks, genPc, dsPc, clPc, dsRead,
                   dsCalls, clCalls, yielded, clError, request, nsVars, handoffs, calls, libVars>>
    /\ enqueued' = Append(enqueued, [leg |-> "answer", item |-> Last(output_queue')])

\* any other content_type is dropped
ClReadOther ==
    /\ clPc = "read"
    /\ Len(clRead) < MaxClEvents
    /\ \E e \in ClEvents :
        /\ e.kind # "answer"
        /\ clRead' = Append(clRead, e)
    /\ UNCHANGED <<messages, chat_id, created_time, output_queue, claude_queue,
                   reasoning_content, finished_tasks, genPc, dsPc, clPc, dsRead,
                   dsCalls, clCalls, yielded, clError, request, nsVars, enqueued, handoffs, calls, libVars>>

\* The stream closes: the async for ends, then output_queue.put(None)
ClStreamEnd ==
    /\ clPc = "read"
    /\ clRead' = Append(clRead, [kind |-> "close", text |-> << >>])
    /\ output_queue' = Append(output_queue, None)
    /\ clPc' = "done"
    /\ UNCHANGED <<messages, chat_id, created_time, claude_queue,
                   reasoning_content, finished_tasks, genPc, dsPc, dsRead, dsCalls,
                   clCalls, yielded, clError, request, nsVars, handoffs, calls, libVars>>
    /\ enqueued' = Append(enqueued, [leg |-> "answer", item |-> None])

\* The provider raises: except -> raise; the task ends with the exception
ClStreamError ==
    /\ clPc = "read"
    /\ clRead' = Append(clRead, [kind |-> "error", text |-> << >>])
    /\ clPc' = "failed"
    /\ clError' = "ProviderStreamError"
    /\ UNCHANGED <<messages, chat_id, created_time, output_queue, claude_queue,
                   reasoning_content, finished_tasks, genPc, dsPc, dsRead, dsCalls,
                   clCalls, yielded, request, nsVars, enqueued, handoffs, calls, libVars>>

\* ------------------------------- chat_completions_with_stream: the consumer

\* item = await output_queue.get(); a chunk is yielded to the caller
GenYieldItem ==
    /\ genPc = "get"
    /\ output_queue # << >>
    /\ Head(output_queue).type # "None"
    /\ output_queue' = Tail(output_queue)
    /\ yielded' = Append(yielded, Head(output_queue))
    /\ UNCHANGED <<messages, chat_id, created_time, claude_queue,
                   reasoning_content, finished_tasks, genPc, dsPc, clPc, dsRead,
                   clRead, dsCalls, clCalls, clError, request, nsVars, enqueued, handoffs, calls, libVars>>

\* GenCountSentinel without the `else`: the sentinel is counted and yielded too.
GenCountSentinel_YieldsNone ==
    /\ genPc = "get"
    /\ output_queue # << >>
    /\ Head(output_queue).type = "None"
    /\ output_queue' = Tail(output_queue)
    /\ finished_tasks' = finished_tasks + 1
    /\ IF finished_tasks' < 2
       THEN /\ yielded' = Append(yielded, Head(output_queue))
            /\ UNCHANGED genPc
       ELSE /\ yielded' = yielded \o <<Head(output_queue), DoneMarker>>
            /\ genPc' = "done"
    /\ UNCHANGED <<messages, chat_id, created_time, claude_queue,
                   reasoning_content, dsPc, clPc, dsRead, clRead, dsCalls, clCalls,
                   clError, request, nsVars, enqueued, handoffs, calls, libVars>>

\* GenCountSentinel with `while finished_tasks < 1`: the loop ends at the first
\* sentinel.
GenCountSentinel_StopsAtOne ==
    /\ genPc = "get"
    /\ output_queue # << >>
    /\ Head(output_queue).type = "None"
    /\ output_queue' = Tail(output_queue)
    /\ finished_tasks' = finished_tasks + 1
    /\ yielded' = Append(yielded, DoneMarker)
    /\ genPc' = "done"
    /\ UNCHANGED <<messages, chat_id, created_time, claude_queue,
                   reasoning_content, dsPc, clPc, dsRead, clRead, dsCalls, clCalls,
                   clError, request, nsVars, enqueued, handoffs, calls, libVars>>

\* item is None: finished_tasks += 1; the second one ends the loop and the
\* end-of-stream marker is yielded
GenCountSentinel ==
    /\ genPc = "get"
    /\ output_queue # << >>
    /\ Head(output_queue).type = "None"
    /\ output_queue' = Tail(output_queue)
    /\ finished_tasks' = finished_tasks + 1
    /\ IF finished_tasks' < 2
       THEN UNCHANGED <<genPc, yielded>>
       ELSE /\ yielded' = Append(yielded, DoneMarker)
            /\ genPc' = "done"
    /\ UNCHANGED <<messages, chat_id, created_time, claude_queue,
                   reasoning_content, dsPc, clPc, dsRead, clRead, dsCalls, clCalls,
                   clError, request, nsVars, enqueued, handoffs, calls, libVars>>

\* The caller stops iterating and closes the generator while it is suspended.
\* The generator holds no handle on the two tasks and has no finally clause.
Disconnect ==
    /\ genPc = "get"
    /\ genPc' = "closed"
    /\ UNCHANGED <<messages, chat_id, created_time, output_queue, claude_queue,
                   reasoning_content, finished_tasks, dsPc, clPc, dsRead, clRead,
                   dsCalls, clCalls, yielded, clError, request, nsVars, enqueued, handoffs, calls, libVars>>

\* ------------------------------------------ chat_completions_without_stream

\* ids, then self.deepseek_client.chat(deepseek_model, messages, ...)
NsStart ==
    /\ genPc = "init"
    /\ chat_id' = "chatcmpl-1"
    /\ created_time' = "t1"
    /\ dsCalls' = Append(dsCalls, messages)
    /\ genPc' = "ns_reason"
    /\ UNCHANGED <<messages, output_queue, claude_queue, reasoning_content,
                   finished_tasks, dsPc, clPc, dsRead, clRead, clCalls, yielded,
                   clError, request, nsVars, enqueued, handoffs, calls, libVars>>

\* if content_type == "reasoning": reasoning_content.append(content)
NsReadReasoning ==
    /\ genPc = "ns_reason"
    /\ Len(dsRead) < MaxDsEvents
    /\ \E e \in DsEvents :
        /\ e.kind = "reasoning"
        /\ dsRead' = Append(dsRead, e)
        /\ reasoning_content' = Append(reasoning_content, e.text)
    /\ UNCHANGED <<messages, chat_id, created_time, output_queue, claude_queue,
                   finished_tasks, genPc, dsPc, clPc, clRead, dsCalls, clCalls,
                   yielded, clError, request, nsVars, enqueued, handoffs, calls, libVars>>

\* any other content_type
NsReadOther ==
    /\ genPc = "ns_reason"
    /\ Len(dsRead) < MaxDsEvents
    /\ \E e \in DsEvents :
        /\ e.kind \notin {"reasoning", "content"}
        /\ dsRead' = Append(dsRead, e)
    /\ UNCHANGED <<messages, chat_id, created_time, output_queue, claude_queue,
                   reasoning_content, finished_tasks, genPc, dsPc, clPc, clRead,
                   dsCalls, clCalls, yielded, clError, request, nsVars, enqueued, handoffs, calls, libVars>>

\* Steps 2 and 3 up to the call of self.claude_client.chat: the reasoning is
\* joined as it is, claude_messages[-1] raises IndexError on an empty list, the
\* splice is done only when the last message is the user's.
NsBuild ==
    LET reasoning == Join(reasoning_content)
        i == LastNonSystemIndex(messages)
    IN  IF i = 0
        THEN /\ raised' = "IndexError"
             /\ genPc' = "ns_raised"
             /\ UNCHANGED <<messages, clCalls, input_tokens>>
        ELSE /\ messages' = IF messages[i].role = "user"
                            THEN SpliceLast(messages, reasoning)
                            ELSE messages
             /\ input_tokens' = Encode(TokenContent(NonSystemMessages(messages')))
             /\ clCalls' = Append(clCalls,
                    [messages |-> NonSystemMessages(messages'),
                     system_prompt |-> SystemPrompt(messages)])
             /\ genPc' = "ns_answer"
             /\ UNCHANGED raised

\* NsReadContent without the break: the loop goes on reading.
NsReadContent_NoBreak ==
    /\ genPc = "ns_reason"
    /\ Len(dsRead) < MaxDsEvents
    /\ \E e \in DsEvents :
        /\ e.kind = "content"
        /\ dsRead' = Append(dsRead, e)
    /\ UNCHANGED <<messages, chat_id, created_time, output_queue, claude_queue,
                   reasoning_content, finished_tasks, genPc, dsPc, clPc, clRead,
                   dsCalls, clCalls, yielded, clError, request, nsVars, enqueued,
                   handoffs, calls, libVars>>

\* elif content_type == "content": break
NsReadContent ==
    /\ genPc = "ns_reason"
    /\ \E e \in DsEvents :
        /\ e.kind = "content"
        /\ dsRead' = Append(dsRead, e)
    /\ NsBuild
    /\ UNCHANGED <<chat_id, created_time, output_queue, claude_queue,
                   reasoning_content, finished_tasks, dsPc, clPc, clRead, dsCalls,
                   yielded, clError, answer, output_tokens, response, request, enqueued, handoffs, calls, libVars>>

\* The reasoning stream closes: the async for ends
NsStreamEnd ==
    /\ genPc = "ns_reason"
    /\ dsRead' = Append(dsRead, [kind |-> "close", text |-> << >>])
    /\ NsBuild
    /\ UNCHANGED <<chat_id, created_time, output_queue, claude_queue,
                   reasoning_content, finished_tasks, dsPc, clPc, clRead, dsCalls,
                   yielded, clError, answer, output_tokens, response, request, enqueued, handoffs, calls, libVars>>

\* The reasoning provider raises: reasoning_content = [<placeholder>]; raise
NsStreamError ==
    /\ genPc = "ns_reason"
    /\ dsRead' = Append(dsRead, [kind |-> "error", text |-> << >>])
    /\ reasoning_content' = <<ReasoningUnavailable>>
    /\ raised' = "ProviderStreamError"
    /\ genPc' = "ns_raised"
    /\ UNCHANGED <<messages, chat_id, created_time, output_queue, claude_queue,
                   finished_tasks, dsPc, clPc, clRead, dsCalls, clCalls, yielded,
                   clError, answer, input_tokens, output_tokens, response, request, enqueued, handoffs, calls, libVars>>

\* NsAnswer with `answer = content` in place of `answer += content`.
NsAnswer_Overwrites ==
    /\ genPc = "ns_answer"
    /\ Len(clRead) < MaxClEvents
    /\ \E e \in ClEvents :
        /\ e.kind = "answer"
        /\ clRead' = Append(clRead, e)
        /\ answer' = e.text
        /\ output_tokens' = Encode(answer')
    /\ UNCHANGED <<messages, chat_id, created_time, output_queue, claude_queue,
                   reasoning_content, finished_tasks, genPc, dsPc, clPc, dsRead,
                   dsCalls, clCalls, yielded, clError, input_tokens, response,
                   raised, request, enqueued, handoffs, calls, libVars>>

\* NsAnswer with output_tokens = encoding.encode(content): the tokens of the
\* last fragment, not of the answer so far.
NsAnswer_EncodesFragment ==
    /\ genPc = "ns_answer"
    /\ Len(clRead) < MaxClEvents
    /\ \E e \in ClEvents :
        /\ e.kind = "answer"
        /\ clRead' = Append(clRead, e)
        /\ answer' = answer \o e.text
        /\ output_tokens' = Encode(e.text)
    /\ UNCHANGED <<messages, chat_id, created_time, output_queue, claude_queue,
                   reasoning_content, finished_tasks, genPc, dsPc, clPc, dsRead,
                   dsCalls, clCalls, yielded, clError, input_tokens, response,
                   raised, request, enqueued, handoffs, calls, libVars>>

\* if content_type == "answer": answer += content; output_tokens = encode(answer)
NsAnswer ==
    /\ genPc = "ns_answer"
    /\ Len(clRead) < MaxClEvents
    /\ \E e \in ClEvents :
        /\ e.kind = "answer"
        /\ clRead' = Append(clRead, e)
        /\ answer' = answer \o e.text
        /\ output_tokens' = Encode(answer')
    /\ UNCHANGED <<messages, chat_id, created_time, output_queue, claude_queue,
                   reasoning_content, finished_tasks, genPc, dsPc, clPc, dsRead,
                   dsCalls, clCalls, yielded, clError, input_tokens, response,
                   raised, request, enqueued, handoffs, calls, libVars>>

\* any other content_type
NsAnswerOther ==
    /\ genPc = "ns_answer"
    /\ Len(clRead) < MaxClEvents
    /\ \E e \in ClEvents :
        /\ e.kind # "answer"
        /\ clRead' = Append(clRead, e)
    /\ UNCHANGED <<messages, chat_id, created_time, output_queue, claude_queue,
                   reasoning_content, finished_tasks, genPc, dsPc, clPc, dsRead,
                   dsCalls, clCalls, yielded, clError, request, nsVars, enqueued, handoffs, calls, libVars>>

\* The answer stream closes: the response object is returned
NsAnswerEnd ==
    /\ genPc = "ns_answer"
    /\ clRead' = Append(clRead, [kind |-> "close", text |-> << >>])
    /\ response' = ChatResponse(chat_id, created_time, answer,
                                Join(reasoning_content), input_tokens, output_tokens)
    /\ genPc' = "ns_returned"
    /\ UNCHANGED <<messages, chat_id, created_time, output_queue, claude_queue,
                   reasoning_content, finished_tasks, dsPc, clPc, dsRead, dsCalls,
                   clCalls, yielded, clError, answer, input_tokens, output_tokens,
                   raised, request, enqueued, handoffs, calls, libVars>>

\* The answer provider raises: except -> raise
NsAnswerError ==
    /\ genPc = "ns_answer"
    /\ clRead' = Append(clRead, [kind |-> "error", text |-> << >>])
    /\ raised' = "ProviderStreamError"
    /\ genPc' = "ns_raised"
    /\ UNCHANGED <<messages, chat_id, created_time, output_queue, claude_queue,
                   reasoning_content, finished_tasks, dsPc, clPc, dsRead, dsCalls,
                   clCalls, yielded, clError, answer, input_tokens, output_tokens,
                   response, request, enqueued, handoffs, calls, libVars>>

\* --------------------------------------------------------------------- Spec

Next ==
    \/ GenStart
    \/ DsStart
    \/ DsReadReasoning
    \/ DsReadContent
    \/ DsReadOther
    \/ DsStreamEnd
    \/ DsStreamError
    \/ ClBuildEmpty
    \/ ClBuildNotUser
    \/ ClBuild
    \/ ClReadAnswer
    \/ ClReadOther
    \/ ClStreamEnd
    \/ ClStreamError
    \/ GenYieldItem
    \/ GenCountSentinel
    \/ Disconnect
    \/ NsStart
    \/ NsReadReasoning
    \/ NsReadOther
    \/ NsReadContent
    \/ NsStreamEnd
    \/ NsStreamError
    \/ NsAnswer
    \/ NsAnswerOther
    \/ NsAnswerEnd
    \/ NsAnswerError

Spec == Init /\ [][Next]_vars

\* ------------------------------------------------------------ properties

\* Everything put on output_queue that is still to come or already yielded,
\* in the order the caller sees it.
Merged == yielded \o output_queue

\* A chunk with non-empty reasoning_content
CarriesReasoning(item) ==
    /\ item.type = "chunk"
    /\ "reasoning_content" \in DOMAIN item.delta
    /\ item.delta.reasoning_content # << >>

\* A chunk with non-empty content
CarriesContent(item) ==
    /\ item.type = "chunk"
    /\ item.delta.content # << >>

RECURSIVE ReasoningChunksOf(_)
\* The chunks of the reasoning events among the events read, in order
ReasoningChunksOf(events) ==
    IF events = << >> THEN << >>
    ELSE IF Head(events).kind = "reasoning"
         THEN <<ReasoningChunk(chat_id, created_time, Head(events).text)>>
                  \o ReasoningChunksOf(Tail(events))
         ELSE ReasoningChunksOf(Tail(events))

RECURSIVE AnswerChunksOf(_)
\* The chunks of the answer events among the events read, in order
AnswerChunksOf(events) ==
    IF events = << >> THEN << >>
    ELSE IF Head(events).kind = "answer"
         THEN <<AnswerChunk(chat_id, created_time, Head(events).text)>>
                  \o AnswerChunksOf(Tail(events))
         ELSE AnswerChunksOf(Tail(events))

IsPrefix(a, b) == Len(a) <= Len(b) /\ a = SubSeq(b, 1, Len(a))

\* The request passes the answer leg's validation: a message is left after the
\* system messages are removed, and the last one is the user's.
ValidRequest ==
    /\ NonSystemMessages(request) # << >>
    /\ Last(NonSystemMessages(request)).role = "user"

\* C1: in streaming mode every chunk with non-empty reasoning_content comes
\* before the first chunk with answer content, in what the caller has received
\* and in what is still queued for it.
C1_ReasoningBeforeAnswer ==
    \A i, j \in 1..Len(Merged) :
        (CarriesContent(Merged[i]) /\ CarriesReasoning(Merged[j])) => j < i

\* C1 witness: the caller has received a reasoning chunk and, after it, an
\* answer chunk.
C1_Witness ==
    \E i, j \in 1..Len(yielded) :
        i < j /\ CarriesReasoning(yielded[i]) /\ CarriesContent(yielded[j])

\* What the caller is to receive for the events read so far.
ExpectedOutput ==
    ReasoningChunksOf(dsRead) \o AnswerChunksOf(clRead)
        \o (IF genPc = "done" THEN <<DoneMarker>> ELSE << >>)

\* C2: the generator's output is, at every moment, a prefix of: one chunk per
\* reasoning fragment in provider order, then one chunk per answer fragment in
\* provider order, then the end marker; when both legs have ended normally and
\* the queue is drained it is all of it.  Nothing is lost, duplicated or
\* reordered and no sentinel reaches the caller.
C2_ExactStreamOutput ==
    /\ IsPrefix(yielded, ExpectedOutput)
    /\ \A i \in 1..Len(yielded) : yielded[i].type # "None"
    /\ genPc = "done" => yielded = ExpectedOutput
    /\ (dsPc = "done" /\ clPc = "done" /\ output_queue = << >> /\ genPc # "closed")
           => genPc = "done"

\* C2 witness: r1, r2, the "content" event; a1, a2, close; five items yielded.
C2_Witness ==
    /\ genPc = "done"
    /\ Len(dsRead) = 3 /\ dsRead[3].kind = "content"
    /\ dsRead[1].kind = "reasoning" /\ dsRead[2].kind = "reasoning"
    /\ dsRead[1].text # << >> /\ dsRead[2].text # << >>
    /\ dsRead[1].text # dsRead[2].text
    /\ Len(clRead) = 3 /\ clRead[3].kind = "close"
    /\ clRead[1].kind = "answer" /\ clRead[2].kind = "answer"
    /\ clRead[1].text # clRead[2].text
    /\ Len(yielded) = 5

\* The sentinels a leg has put on output_queue
SentinelsOf(leg) ==
    {i \in 1..Len(enqueued) : enqueued[i].leg = leg /\ enqueued[i].item.type = "None"}

\* C10: the end marker is yielded at most once and last, only when the
\* sentinels of both legs have been taken off the queue; a leg puts at most one
\* sentinel, and nothing after it.
C10_DoneMarkerLast ==
    /\ \A i \in 1..Len(yielded) :
          yielded[i].type = "done" =>
              /\ i = Len(yielded)
              /\ finished_tasks = 2
              /\ SentinelsOf("reasoning") # {} /\ SentinelsOf("answer") # {}
              /\ output_queue = << >>
    /\ \A leg \in {"reasoning", "answer"} :
          /\ Cardinality(SentinelsOf(leg)) <= 1
          /\ \A i \in SentinelsOf(leg) :
                \A j \in 1..Len(enqueued) : j > i => enqueued[j].leg # leg

\* C10 witness: the end marker has been yielded after chunks of both legs.
C10_Witness ==
    /\ genPc = "done"
    /\ Last(yielded).type = "done"
    /\ \E i, j \in 1..Len(enqueued) :
          /\ enqueued[i].leg = "reasoning" /\ enqueued[i].item.type = "chunk"
          /\ enqueued[j].leg = "answer" /\ enqueued[j].item.type = "chunk"

\* Both legs of the streaming request have ended, normally or with an exception.
BothLegsEnded == dsPc \in {"done", "failed"} /\ clPc \in {"done", "failed"}

\* C3: once both legs have ended, DONE or FAILED, the consumer loop is not left
\* waiting: it has yielded the end marker or still has an item to take.
C3_ConsumerNotLeftWaiting ==
    (BothLegsEnded /\ genPc # "closed") => (genPc = "done" \/ output_queue # << >>)

\* C4: when the reasoning stream has closed without a "content" event, the
\* reasoning leg has published the accumulated text to claude_queue.
C4_StreamEndPublishes ==
    (dsPc = "done" /\ Last(dsRead).kind = "close")
        => handoffs = <<Join(reasoning_content)>>

\* C5: when the answer leg has failed and everything forwarded has been
\* yielded, the stream has been ended for the caller (an error raised to it, or
\* the end marker); it is not left open.
C5_AnswerFailureEndsStream ==
    (clPc = "failed" /\ output_queue = << >> /\ genPc # "closed")
        => genPc \in {"done", "raised"}

\* The answer provider has been called once, and the text spliced into the last
\* message it was given is the placeholder.
CalledWithPlaceholder ==
    /\ Len(clCalls) = 1
    /\ Last(clCalls[1].messages).content =
           FixedContent(Last(NonSystemMessages(request)).content, ReasoningUnavailable)

\* The reasoning leg ended without an event of kind "reasoning".
NoReasoningEvent == \A i \in 1..Len(dsRead) : dsRead[i].kind # "reasoning"

\* C6 as stated: after a failure of the reasoning provider, once the answer leg
\* has taken the handoff the answer provider has been called with the
\* placeholder.
C6_Original ==
    (dsPc = "failed" /\ clPc # "wait") => CalledWithPlaceholder

\* C6 amended: for a request that passes the answer leg's validation, after a
\* failure of the reasoning provider the handoff is there for the answer leg to
\* take, the answer provider is called with the placeholder, and every answer
\* chunk is yielded, or queued for the caller, behind the reasoning chunks.
C6_DegradeToPlaceholder ==
    (dsPc = "failed" /\ ValidRequest) =>
        /\ handoffs = << << >> >>
        /\ clPc = "wait" => claude_queue # << >>
        /\ clPc # "wait" => CalledWithPlaceholder
        /\ SelectSeq(Merged, LAMBDA item : item.type = "chunk")
               = ReasoningChunksOf(dsRead) \o AnswerChunksOf(clRead)
        /\ (genPc = "get" /\ output_queue = << >>)
               => yielded = ReasoningChunksOf(dsRead) \o AnswerChunksOf(clRead)

\* C6 witness: the reasoning provider failed after a reasoning chunk was
\* forwarded, and an answer chunk has been yielded.
C6_Witness ==
    /\ dsPc = "failed"
    /\ Len(dsRead) >= 2 /\ dsRead[1].kind = "reasoning"
    /\ CalledWithPlaceholder
    /\ \E i \in 1..Len(yielded) : CarriesContent(yielded[i])

\* C7: in streaming mode, for a request that passes validation, when the
\* reasoning leg has ended without a reasoning event the handoff is there for
\* the answer leg, or the answer provider has been called with the placeholder.
C7_ZeroReasoningUsesPlaceholder ==
    (dsPc = "done" /\ NoReasoningEvent /\ ValidRequest) =>
        \/ clPc = "wait" /\ claude_queue # << >>
        \/ clPc # "wait" /\ CalledWithPlaceholder

\* C8: in non-streaming mode, for a request that passes validation, when the
\* reasoning leg gave no reasoning event or failed, the answer provider is
\* called with the placeholder and only a failure of the answer provider
\* keeps the response from being returned.
C8_NonStreamUsesPlaceholder ==
    (/\ genPc \in {"ns_answer", "ns_returned", "ns_raised"}
     /\ ValidRequest
     /\ (NoReasoningEvent \/ Last(dsRead).kind = "error")) =>
        /\ CalledWithPlaceholder
        /\ genPc = "ns_raised" => (clRead # << >> /\ Last(clRead).kind = "error")
        /\ genPc = "ns_returned" => response.type = "response"

\* C9: once the caller has closed the generator, no event is read from either
\* provider stream and nothing is put on the output channel.
C9_DisconnectCancelsLegs ==
    [][genPc = "closed" =>
          /\ dsRead' = dsRead
          /\ clRead' = clRead
          /\ enqueued' = enqueued]_vars

\* The request is served by chat_completions_with_stream.
Streaming == dsPc # "idle"

\* The request is served by chat_completions_without_stream.
NonStreaming == genPc \in {"ns_reason", "ns_answer", "ns_returned", "ns_raised"}

\* The reasoning stream has delivered its "content" event or has closed.
ReasoningLoopLeft == dsRead # << >> /\ Last(dsRead).kind \in {"content", "close"}

\* C11: whenever the answer provider has been called, the reasoning leg has
\* already written the handoff (streaming) or left its read loop
\* (non-streaming).
C11_AnswerAfterReasoning ==
    clCalls # << >> =>
        /\ Streaming => (handoffs # << >> /\ dsPc \in {"done", "failed"})
        /\ NonStreaming => ReasoningLoopLeft

\* C11 witness: in streaming mode the answer provider has been called after the
\* handoff of a non-empty reasoning text.
C11_Witness ==
    /\ clCalls # << >>
    /\ Streaming
    /\ handoffs # << >> /\ handoffs[1] # << >>

RECURSIVE ReasoningTextsOf(_)
\* The texts of the reasoning events among the events read, in order
ReasoningTextsOf(events) ==
    IF events = << >> THEN << >>
    ELSE IF Head(events).kind = "reasoning"
         THEN <<Head(events).text>> \o ReasoningTextsOf(Tail(events))
         ELSE ReasoningTextsOf(Tail(events))

\* Reads of the handoff slot so far: what was written and is no longer queued.
HandoffReads == Len(handoffs) - Len(claude_queue)

\* C12: in a streaming request claude_queue is written at most once and read
\* at most once, never read before it is written, and once it is written the
\* reasoning leg reads no further event and appends nothing to the accumulator.
C12_OneShotHandoff ==
    Streaming =>
        /\ Len(handoffs) <= 1
        /\ HandoffReads \in {0, 1}
        /\ (clPc # "wait") <=> (HandoffReads = 1)
        /\ handoffs # << >> =>
              /\ dsPc \in {"done", "failed"}
              /\ reasoning_content = ReasoningTextsOf(dsRead)
              /\ Last(dsRead).kind \in {"content", "error"}

\* C12 witness: the handoff was written after two fragments and has been read.
C12_Witness ==
    /\ Streaming
    /\ Len(reasoning_content) = 2
    /\ handoffs = <<Join(reasoning_content)>>
    /\ HandoffReads = 1

AnswerLegSilent ==
    /\ clCalls = << >>
    /\ clRead = << >>
    /\ \A i \in 1..Len(enqueued) : enqueued[i].leg # "answer"

\* C14: in streaming mode, once the answer leg has taken the handoff: with no
\* message left after the system messages are removed it has failed with the
\* empty-message-list error, with a last message that is not the user's it has
\* failed with the last-message-not-user error, and in both cases the answer
\* provider was not called and no answer chunk was emitted; it fails so in no
\* other case.
C14_StreamValidation ==
    (Streaming /\ clPc # "wait") =>
        /\ NonSystemMessages(request) = << >> =>
              (clPc = "failed" /\ clError = "EmptyMessageList" /\ AnswerLegSilent)
        /\ (NonSystemMessages(request) # << >>
              /\ Last(NonSystemMessages(request)).role # "user") =>
              (clPc = "failed" /\ clError = "LastMessageNotUser" /\ AnswerLegSilent)
        /\ ValidRequest => clError \notin {"EmptyMessageList", "LastMessageNotUser"}

\* C14 witness: the answer leg failed on a last message that is not the user's,
\* after reasoning chunks were forwarded.
C14_Witness ==
    /\ clError = "LastMessageNotUser"
    /\ \E i \in 1..Len(yielded) : CarriesReasoning(yielded[i])

\* C15: in non-streaming mode, once the reasoning loop is left: with no message
\* left after the system messages are removed the call has failed with the
\* empty-message-list error, with a last message that is not the user's it has
\* failed with the last-message-not-user error, and in both cases the answer
\* provider was not called and no response is returned.
C15_NonStreamValidation ==
    (NonStreaming /\ ReasoningLoopLeft) =>
        /\ NonSystemMessages(request) = << >> =>
              (raised = "EmptyMessageList" /\ clCalls = << >> /\ response.type = "none")
        /\ (NonSystemMessages(request) # << >>
              /\ Last(NonSystemMessages(request)).role # "user") =>
              (raised = "LastMessageNotUser" /\ clCalls = << >> /\ response.type = "none")

RECURSIVE AnswerTextsOf(_)
\* The texts of the answer events among the events read, in order
AnswerTextsOf(events) ==
    IF events = << >> THEN << >>
    ELSE IF Head(events).kind = "answer"
         THEN <<Head(events).text>> \o AnswerTextsOf(Tail(events))
         ELSE AnswerTextsOf(Tail(events))

\* The answer stream was opened and has closed.
AnswerStreamClosed == clRead # << >> /\ Last(clRead).kind = "close"

\* C16: in non-streaming mode a response is there exactly when the call has
\* returned, and it has returned when both providers completed normally; its
\* reasoning_content is the reasoning fragments joined in order, its content the
\* answer fragments joined in order; nothing is read from the reasoning stream
\* after the first "content" event.
C16_NonStreamResponse ==
    NonStreaming =>
        /\ (response.type = "response") <=> (genPc = "ns_returned")
        /\ (ReasoningLoopLeft /\ AnswerStreamClosed) => genPc = "ns_returned"
        /\ genPc = "ns_returned" =>
              /\ response.object = "chat.completion"
              /\ response.message.reasoning_content = Join(ReasoningTextsOf(dsRead))
              /\ response.message.content = Join(AnswerTextsOf(clRead))
        /\ \A i \in 1..Len(dsRead) : dsRead[i].kind = "content" => i = Len(dsRead)

\* C16 witness: r1, r2, "content"; a1, a2, close; the response is returned.
C16_Witness ==
    /\ genPc = "ns_returned"
    /\ Len(ReasoningTextsOf(dsRead)) = 2 /\ Last(dsRead).kind = "content"
    /\ dsRead[1].text # dsRead[2].text
    /\ dsRead[1].text # << >> /\ dsRead[2].text # << >>
    /\ Len(AnswerTextsOf(clRead)) = 2
    /\ clRead[1].text # clRead[2].text

\* C17: every response returned in non-streaming mode has
\* usage.total_tokens = usage.prompt_tokens + usage.completion_tokens, none of
\* them negative; completion_tokens counts the tokens of the whole answer text
\* (0 when there was no answer event) and prompt_tokens those of the messages
\* sent to the answer provider, joined by newlines.
C17_UsageAddsUp ==
    genPc = "ns_returned" =>
        /\ response.usage.total_tokens =
              response.usage.prompt_tokens + response.usage.completion_tokens
        /\ response.usage.prompt_tokens >= 0
        /\ response.usage.completion_tokens >= 0
        /\ response.usage.completion_tokens =
              Len(Encode(Join(AnswerTextsOf(clRead))))
        /\ AnswerTextsOf(clRead) = << >> => response.usage.completion_tokens = 0
        /\ response.usage.prompt_tokens =
              Len(Encode(TokenContent(clCalls[1].messages)))

\* C17 witness: a response after two answer fragments, and with a prompt.
C17_Witness ==
    /\ genPc = "ns_returned"
    /\ Len(AnswerTextsOf(clRead)) = 2
    /\ response.usage.completion_tokens >= 2
    /\ response.usage.prompt_tokens > 0

\* C18: within one streaming request every chunk put on the output queue carries
\* the request's id and created value, both set before either leg starts, and
\* the model id of the leg that produced it.
C18_ChunkIdentity ==
    Streaming =>
        /\ chat_id # "unset" /\ created_time # "unset"
        /\ \A i \in 1..Len(enqueued) :
              enqueued[i].item.type = "chunk" =>
                  /\ enqueued[i].item.id = chat_id
                  /\ enqueued[i].item.created = created_time
                  /\ enqueued[i].leg = "reasoning" => enqueued[i].item.model = DeepseekModelId
                  /\ enqueued[i].leg = "answer" => enqueued[i].item.model = ClaudeModelId
        /\ \A i \in 1..Len(yielded) : \A j \in 1..Len(yielded) :
              (yielded[i].type = "chunk" /\ yielded[j].type = "chunk") =>
                  /\ yielded[i].id = yielded[j].id
                  /\ yielded[i].created = yielded[j].created

\* C18 witness: the caller has received a reasoning chunk and an answer chunk.
C18_Witness ==
    /\ \E i \in 1..Len(yielded) : CarriesReasoning(yielded[i])
    /\ \E i \in 1..Len(yielded) :
          yielded[i].type = "chunk" /\ yielded[i].model = ClaudeModelId

\* C19: in either mode and on every path the reasoning provider's stream is
\* opened at most once and the answer provider's stream at most once; a leg
\* that has failed has not opened its stream again.
C19_NoRetries ==
    /\ Len(dsCalls) <= 1
    /\ Len(clCalls) <= 1
    /\ (dsRead # << >> /\ Last(dsRead).kind = "error") =>
          (Len(dsCalls) = 1 /\ (Streaming => dsPc = "failed"))
    /\ (clRead # << >> /\ Last(clRead).kind = "error") =>
          (Len(clCalls) = 1 /\ (Streaming => clPc = "failed"))
    /\ \A i \in 1..Len(dsRead) : dsRead[i].kind = "error" => i = Len(dsRead)
    /\ \A i \in 1..Len(clRead) : clRead[i].kind = "error" => i = Len(clRead)

\* C19 witness: both providers failed in one streaming request, each after its
\* stream was opened once.
C19_Witness ==
    /\ Streaming
    /\ dsRead # << >> /\ Last(dsRead).kind = "error"
    /\ clRead # << >> /\ Last(clRead).kind = "error"
    /\ Len(dsCalls) = 1 /\ Len(clCalls) = 1


\* ------------------------------------------- two requests on one DeepClaude

PairInit ==
    /\ Init
    /\ request = << >>

\* The first __anext__ of request r: ids, queues, the two tasks.
PairGenStart(r) ==
    /\ calls[r].genPc = "init"
    /\ \E id \in ChatIds :
          calls' = [calls EXCEPT ![r].chat_id = id,
                                 ![r].created_time = "t1",
                                 ![r].genPc = "get",
                                 ![r].dsPc = "start",
                                 ![r].clPc = "wait"]
    /\ UNCHANGED <<requestVars, libVars>>

\* self.deepseek_client.chat(deepseek_model, messages, ...)
PairDsStart(r) ==
    /\ calls[r].dsPc = "start"
    /\ calls' = [calls EXCEPT ![r].dsCalls = Append(@, calls[r].messages),
                              ![r].dsPc = "read"]
    /\ UNCHANGED <<requestVars, libVars>>

\* PairDsReadReasoning with the accumulator kept on the instance
\* (self.reasoning_content): every request appends to the same list.
PairDsReadReasoning_SharedAccumulator(r) ==
    /\ calls[r].dsPc = "read"
    /\ \E e \in {[kind |-> "reasoning", text |-> PairReasoningFragment(r)]} :
        /\ MayCome(PairDsScripts(r), calls[r].dsRead, e)
        /\ calls' =
             [[calls EXCEPT
                 ![r].dsRead = Append(@, e),
                 ![r].output_queue =
                     Append(@, ReasoningChunk(calls[r].chat_id,
                                              calls[r].created_time, e.text))]
              EXCEPT ![1].reasoning_content = Append(@, e.text)]
    /\ UNCHANGED <<requestVars, libVars>>

\* if content_type == "reasoning": accumulate and forward
PairDsReadReasoning(r) ==
    /\ calls[r].dsPc = "read"
    /\ \E e \in {[kind |-> "reasoning", text |-> PairReasoningFragment(r)]} :
        /\ MayCome(PairDsScripts(r), calls[r].dsRead, e)
        /\ calls' =
             [calls EXCEPT
                 ![r].dsRead = Append(@, e),
                 ![r].reasoning_content = Append(@, e.text),
                 ![r].output_queue =
                     Append(@, ReasoningChunk(calls[r].chat_id,
                                              calls[r].created_time, e.text))]
    /\ UNCHANGED <<requestVars, libVars>>

\* elif content_type == "content": hand the text over, break, put the sentinel
PairDsReadContent(r) ==
    /\ calls[r].dsPc = "read"
    /\ \E e \in {[kind |-> "content", text |-> << >>]} :
        /\ MayCome(PairDsScripts(r), calls[r].dsRead, e)
        /\ calls' =
             [calls EXCEPT
                 ![r].dsRead = Append(@, e),
                 ![r].claude_queue = Append(@, Join(calls[r].reasoning_content)),
                 ![r].output_queue = Append(@, None),
                 ![r].dsPc = "done"]
    /\ UNCHANGED <<requestVars, libVars>>

\* The stream closes without a "content" event: only the sentinel is put.
PairDsStreamEnd(r) ==
    /\ calls[r].dsPc = "read"
    /\ \E e \in {[kind |-> "close", text |-> << >>]} :
        /\ MayCome(PairDsScripts(r), calls[r].dsRead, e)
        /\ calls' =
             [calls EXCEPT
                 ![r].dsRead = Append(@, e),
                 ![r].output_queue = Append(@, None),
                 ![r].dsPc = "done"]
    /\ UNCHANGED <<requestVars, libVars>>

\* The provider raises: except -> claude_queue.put(""), raise
PairDsStreamError(r) ==
    /\ calls[r].dsPc = "read"
    /\ \E e \in {[kind |-> "error", text |-> << >>]} :
        /\ MayCome(PairDsScripts(r), calls[r].dsRead, e)
        /\ calls' =
             [calls EXCEPT
                 ![r].dsRead = Append(@, e),
                 ![r].claude_queue = Append(@, << >>),
                 ![r].dsPc = "failed"]
    /\ UNCHANGED <<requestVars, libVars>>

\* claude_queue.get() returns; validation, splice, self.claude_client.chat(...)
PairClBuild(r) ==
    /\ calls[r].clPc = "wait"
    /\ calls[r].claude_queue # << >>
    /\ LET c == calls[r]
           reasoning == UsableReasoning(Head(c.claude_queue))
           spliced == SpliceLast(c.messages, reasoning)
       IN  IF NonSystemMessages(c.messages) = << >>
           THEN calls' = [calls EXCEPT ![r].claude_queue = Tail(@),
                                       ![r].clPc = "failed",
                                       ![r].clError = "EmptyMessageList"]
           ELSE IF c.messages[LastNonSystemIndex(c.messages)].role # "user"
           THEN calls' = [calls EXCEPT ![r].claude_queue = Tail(@),
                                       ![r].clPc = "failed",
                                       ![r].clError = "LastMessageNotUser"]
           ELSE calls' = [calls EXCEPT
                            ![r].claude_queue = Tail(@),
                            ![r].messages = spliced,
                            ![r].clCalls =
                                Append(@, [messages |-> NonSystemMessages(spliced),
                                           system_prompt |-> SystemPrompt(c.messages)]),
                            ![r].clPc = "read"]
    /\ UNCHANGED <<requestVars, libVars>>

\* if content_type == "answer": forward
PairClReadAnswer(r) ==
    /\ calls[r].clPc = "read"
    /\ \E e \in {[kind |-> "answer", text |-> PairAnswerFragment(r)]} :
        /\ MayCome(PairClScripts(r), calls[r].clRead, e)
        /\ calls' =
             [calls EXCEPT
                 ![r].clRead = Append(@, e),
                 ![r].output_queue =
                     Append(@, AnswerChunk(calls[r].chat_id,
                                           calls[r].created_time, e.text))]
    /\ UNCHANGED <<requestVars, libVars>>

\* The stream closes: the async for ends, then output_queue.put(None)
PairClStreamEnd(r) ==
    /\ calls[r].clPc = "read"
    /\ \E e \in {[kind |-> "close", text |-> << >>]} :
        /\ MayCome(PairClScripts(r), calls[r].clRead, e)
        /\ calls' =
             [calls EXCEPT
                 ![r].clRead = Append(@, e),
                 ![r].output_queue = Append(@, None),
                 ![r].clPc = "done"]
    /\ UNCHANGED <<requestVars, libVars>>

\* The provider raises: except -> raise; the task ends with the exception
PairClStreamError(r) ==
    /\ calls[r].clPc = "read"
    /\ \E e \in {[kind |-> "error", text |-> << >>]} :
        /\ MayCome(PairClScripts(r), calls[r].clRead, e)
        /\ calls' =
             [calls EXCEPT
                 ![r].clRead = Append(@, e),
                 ![r].clPc = "failed",
                 ![r].clError = "ProviderStreamError"]
    /\ UNCHANGED <<requestVars, libVars>>

\* item = await output_queue.get(); a chunk is yielded to request r's caller
PairGenYieldItem(r) ==
    /\ calls[r].genPc = "get"
    /\ calls[r].output_queue # << >>
    /\ Head(calls[r].output_queue).type # "None"
    /\ calls' = [calls EXCEPT ![r].output_queue = Tail(@),
                              ![r].yielded = Append(@, Head(calls[r].output_queue))]
    /\ UNCHANGED <<requestVars, libVars>>

\* item is None: finished_tasks += 1; the second one ends the loop and the
\* end-of-stream marker is yielded
PairGenCountSentinel(r) ==
    /\ calls[r].genPc = "get"
    /\ calls[r].output_queue # << >>
    /\ Head(calls[r].output_queue).type = "None"
    /\ IF calls[r].finished_tasks + 1 < 2
       THEN calls' = [calls EXCEPT ![r].output_queue = Tail(@),
                                   ![r].finished_tasks = @ + 1]
       ELSE calls' = [calls EXCEPT ![r].output_queue = Tail(@),
                                   ![r].finished_tasks = @ + 1,
                                   ![r].yielded = Append(@, DoneMarker),
                                   ![r].genPc = "done"]
    /\ UNCHANGED <<requestVars, libVars>>

PairNext ==
    \/ \E r \in Requests : PairGenStart(r)
    \/ \E r \in Requests : PairDsStart(r)
    \/ \E r \in Requests : PairDsReadReasoning(r)
    \/ \E r \in Requests : PairDsReadContent(r)
    \/ \E r \in Requests : PairDsStreamEnd(r)
    \/ \E r \in Requests : PairDsStreamError(r)
    \/ \E r \in Requests : PairClBuild(r)
    \/ \E r \in Requests : PairClReadAnswer(r)
    \/ \E r \in Requests : PairClStreamEnd(r)
    \/ \E r \in Requests : PairClStreamError(r)
    \/ \E r \in Requests : PairGenYieldItem(r)
    \/ \E r \in Requests : PairGenCountSentinel(r)

SpecPair == PairInit /\ [][PairNext]_vars

\* The chunks of request r's events, reasoning then answer, as the request
\* itself builds them.
PairChunksOf(r) ==
    LET c == calls[r]
        R == ReasoningTextsOf(c.dsRead)
        A == AnswerTextsOf(c.clRead)
    IN  [i \in 1..Len(R) |-> ReasoningChunk(c.chat_id, c.created_time, R[i])]
            \o [i \in 1..Len(A) |-> AnswerChunk(c.chat_id, c.created_time, A[i])]

\* The texts a chunk carries
ChunkTexts(item) ==
    IF item.type # "chunk" THEN { }
    ELSE IF "reasoning_content" \in DOMAIN item.delta
         THEN {item.delta.reasoning_content, item.delta.content} \ {<< >>}
         ELSE {item.delta.content} \ {<< >>}

\* How many of request r's own legs have put their sentinel
OwnSentinels(r) ==
    (IF calls[r].dsPc = "done" THEN 1 ELSE 0) + (IF calls[r].clPc = "done" THEN 1 ELSE 0)

\* What is still on request r's output queue or already yielded, the
\* sentinels and the end marker left out
PairChunksSeen(r) ==
    SelectSeq(calls[r].yielded \o calls[r].output_queue,
              LAMBDA item : item.type = "chunk")

\* What request r's reasoning leg hands over: its own accumulator joined at
\* the "content" event, the empty text when its own stream failed.
PairHandedOver(r) ==
    IF Last(calls[r].dsRead).kind = "content"
    THEN Join(ReasoningTextsOf(calls[r].dsRead))
    ELSE << >>

\* C20: two concurrent streaming requests on one instance share no mutable
\* state: under every interleaving each request's output holds only the chunks
\* of its own providers' events, in their order; its accumulator holds its own
\* reasoning fragments and its answer leg is called with what its own reasoning
\* leg handed over; and it counts only the sentinels of its own two legs.
C20_RequestsIndependent ==
    \A r \in Requests :
        LET c == calls[r]
        IN  /\ PairChunksSeen(r) = PairChunksOf(r)
            /\ \A i \in 1..Len(c.yielded) :
                  ChunkTexts(c.yielded[i]) \subseteq
                      {PairReasoningFragment(r), PairAnswerFragment(r)}
            /\ c.reasoning_content = ReasoningTextsOf(c.dsRead)
            /\ c.clCalls # << >> =>
                  c.clCalls[1].messages =
                      NonSystemMessages(SpliceLast(PairMessages(r),
                          UsableReasoning(PairHandedOver(r))))
            /\ c.finished_tasks + Len(SelectSeq(c.output_queue,
                                        LAMBDA item : item.type = "None"))
                  = OwnSentinels(r)
            /\ c.genPc = "done" => (c.dsPc = "done" /\ c.clPc = "done")

\* C20 witness: the two requests are in flight together, each between its two
\* reasoning fragments; request 1's caller has its first chunk, request 2's
\* chunk is still queued.
C20_Witness ==
    /\ \A r \in Requests :
          /\ calls[r].dsPc = "read"
          /\ calls[r].reasoning_content = <<PairReasoningFragment(r)>>
    /\ Len(calls[1].yielded) = 1
    /\ Len(calls[2].output_queue) = 1
    /\ calls[1].chat_id = calls[2].chat_id

\* ----------------------------------------- the message transform on its own

IdleInit ==
    /\ Init
    /\ request = << >>

\* process_claude builds the answer provider's input from a message list
ApplyStreamTransform ==
    /\ transformed.kind = "idle"
    /\ \E msgs \in TransformInputs : \E reasoning \in {<<"r1">>, << >>} :
          transformed' = StreamTransform(msgs, reasoning)
    /\ UNCHANGED exceptTransform

\* chat_completions_without_stream builds the answer provider's input
ApplyNonStreamTransform ==
    /\ transformed.kind = "idle"
    /\ \E msgs \in TransformInputs : \E reasoning \in {<<"r1">>, << >>} :
          transformed' = NonStreamTransform(msgs, reasoning)
    /\ UNCHANGED exceptTransform

TransformNext ==
    \/ ApplyStreamTransform
    \/ ApplyNonStreamTransform

SpecTransform == IdleInit /\ [][TransformNext]_vars

\* The contents of the system messages of a list, in order
SystemContentsOf(msgs) ==
    LET sys == SelectSeq(msgs, IsSystem)
    IN  [i \in 1..Len(sys) |-> sys[i].content]

\* The system text the claim describes: newline-joined, trimmed
TrimmedSystemText(msgs) == Strip(JoinWith(<<"\n">>, SystemContentsOf(msgs)))

\* C21: the system prompt passed to the answer provider is the newline-joined
\* contents of the system messages, trimmed, and is None whenever that text is
\* empty; the message list passed holds the non-system messages and no system
\* message, in their original order.
C21_TransformSplit ==
    transformed.kind = "call" =>
        LET sp == transformed.system_prompt
            text == TrimmedSystemText(transformed.input)
            rest == NonSystemMessages(transformed.input)
        IN  /\ sp.isNone <=> (text = << >>)
            /\ ~sp.isNone => sp.text = text
            /\ Len(transformed.messages) = Len(rest)
            /\ \A i \in 1..Len(rest) :
                  /\ transformed.messages[i].role = rest[i].role
                  /\ transformed.messages[i].role # "system"
                  /\ i < Len(rest) => transformed.messages[i] = rest[i]

\* ------------------------------------------------------------ ModelSelector

\* ModelSelector(): __new__ returns the one instance, then __init__ runs on
\* it, every time.
SelectorObtain ==
    /\ selInstance' = "instance"
    /\ selCache' = [id \in ModelIds |-> NoEntry]
    /\ UNCHANGED <<environ, selLast, selFirst>>
    /\ UNCHANGED exceptSelector

\* select_model(model_id) on the instance
SelectModel ==
    /\ selInstance = "instance"
    /\ \E model_id \in ModelIds :
        LET outcome == IF selCache[model_id].kind = "pair"
                       THEN selCache[model_id]
                       ELSE ParseModelId(environ, model_id)
        IN  /\ selCache' = IF outcome.kind = "pair"
                           THEN [selCache EXCEPT ![model_id] = outcome]
                           ELSE selCache
            /\ selLast' = [kind |-> "call", model_id |-> model_id,
                           outcome |-> outcome, environ |-> environ,
                           cached_before |-> selCache[model_id].kind = "pair"]
            /\ selFirst' = IF outcome.kind = "pair" /\ selFirst[model_id].kind = "none"
                           THEN [selFirst EXCEPT ![model_id] = outcome]
                           ELSE selFirst
    /\ UNCHANGED <<environ, selInstance>>
    /\ UNCHANGED exceptSelector

\* The process's environment changes: an alias is set, changed or removed.
EnvironChange ==
    /\ \E k \in EnvKeys : \E v \in EnvNames \cup {Unset} :
        /\ environ[k] # v
        /\ environ' = [environ EXCEPT ![k] = v]
    /\ UNCHANGED <<selInstance, selCache, selLast, selFirst>>
    /\ UNCHANGED exceptSelector

SelectorNext ==
    \/ SelectorObtain
    \/ SelectModel
    \/ EnvironChange

SpecSelector == IdleInit /\ [][SelectorNext]_vars

\* C22: resolving an identifier that resolved before yields the pair it
\* yielded the first time, whatever happened in between.
C22_SelectIdempotent ==
    (selLast.kind = "call" /\ selFirst[selLast.model_id].kind = "pair") =>
        selLast.outcome = selFirst[selLast.model_id]

\* The identifier has the form <reasoning_alias>+<answer_alias> and both
\* aliases are set in the environment.
Resolvable(env, model_id) ==
    LET parts == SplitPlus(model_id)
    IN  /\ Len(parts) = 2
        /\ \A i \in 1..2 :
              ~Getenv(env, <<"MODEL_">> \o Upper(ReplaceDash(parts[i]))).isNone

\* C23: select_model of an identifier that cannot be resolved (not of the form
\* <reasoning_alias>+<answer_alias>, or an alias missing from the environment,
\* and no pair cached for it) raises the model-not-found ValueError, returns no
\* pair and leaves the cache as it was.
C23_UnresolvableFails ==
    (/\ selLast.kind = "call"
     /\ ~selLast.cached_before
     /\ ~Resolvable(selLast.environ, selLast.model_id)) =>
        /\ selLast.outcome.kind = "raise"
        /\ selLast.outcome.error = "ValueError"
        /\ selCache[selLast.model_id].kind = "none"

\* A "content" event has been read from the reasoning stream.
ContentEventRead == \E i \in 1..Len(dsRead) : dsRead[i].kind = "content"

\* What the reasoning leg has put on the output queue, in order
ReasoningLegPuts ==
    LET puts == SelectSeq(enqueued, LAMBDA p : p.leg = "reasoning")
    IN  [i \in 1..Len(puts) |-> puts[i].item]

\* In either mode: the "content" event is the last event read, and what was
\* accumulated is what was read before it.
StopsAtContent ==
    /\ Last(dsRead).kind = "content"
    /\ \A i \in 1..(Len(dsRead) - 1) : dsRead[i].kind # "content"
    /\ reasoning_content = ReasoningTextsOf(dsRead)

\* Streaming: one chunk per reasoning event, then the sentinel, nothing after it;
\* one handoff, the accumulated text
PublishesOnceAndEnds ==
    /\ dsPc = "done"
    /\ ReasoningLegPuts = Append(ReasoningChunksOf(dsRead), None)
    /\ handoffs = <<Join(ReasoningTextsOf(dsRead))>>

\* C24 as stated: after the first "content" event the leg reads nothing more,
\* forwards nothing more, publishes the accumulated text once and enqueues its
\* sentinel, in streaming and in non-streaming mode.
C24_Original ==
    ContentEventRead => (StopsAtContent /\ (Streaming \/ NonStreaming => PublishesOnceAndEnds))

\* C24: after the first "content" event nothing more is read from the
\* reasoning stream and nothing more is accumulated, in both modes; in streaming
\* mode the leg has forwarded one chunk per reasoning event, published the
\* accumulated text exactly once and put its sentinel last; in non-streaming
\* mode, which has no queue, the call has left the reasoning loop.
C24_StopsAtContent ==
    ContentEventRead =>
        /\ StopsAtContent
        /\ Streaming => PublishesOnceAndEnds
        /\ NonStreaming =>
              (genPc # "ns_reason" /\ enqueued = << >> /\ handoffs = << >>)

\* C24 witness: streaming, two fragments then "content"; the answer leg has
\* taken the text.
C24_Witness ==
    /\ Streaming
    /\ ContentEventRead
    /\ Len(ReasoningTextsOf(dsRead)) = 2
    /\ clPc = "read"

\* The reasoning fragments forwarded to the caller: the reasoning_content of
\* the chunks the reasoning leg has put on the output queue, in order
ForwardedReasoning ==
    LET chunks == SelectSeq(ReasoningLegPuts, LAMBDA item : item.type = "chunk")
    IN  [i \in 1..Len(chunks) |-> chunks[i].delta.reasoning_content]

\* The last message's content as the answer provider is to see it: the
\* original content inside the fixed template, with the reasoning text
SplicedContent(original_content, reasoning_text) ==
    <<"Here's my original input:\n">> \o original_content
        \o <<"\n\n", "\n Here's my another model's reasoning process:\n">>
        \o reasoning_text
        \o <<"\n\n\n Based on this reasoning, provide your response directly to me:">>

ChunksPutBy(leg) ==
    LET puts == SelectSeq(enqueued, LAMBDA p : p.leg = leg /\ p.item.type = "chunk")
    IN  [i \in 1..Len(puts) |-> puts[i].item]

\* C26: in streaming mode there is one chunk per reasoning event and one per
\* answer event, none for any other event; every chunk's delta has the three
\* fields role ("assistant"), reasoning_content and content; a reasoning chunk
\* carries the fragment as reasoning_content with empty content, an answer
\* chunk carries the fragment as content.
C26_ChunkShape ==
    Streaming =>
        LET R == ChunksPutBy("reasoning")
            A == ChunksPutBy("answer")
        IN  /\ Len(R) = Len(ReasoningTextsOf(dsRead))
            /\ Len(A) = Len(AnswerTextsOf(clRead))
            /\ \A i \in 1..Len(R) :
                  /\ DOMAIN R[i].delta = {"role", "reasoning_content", "content"}
                  /\ R[i].delta.role = "assistant"
                  /\ R[i].delta.reasoning_content = ReasoningTextsOf(dsRead)[i]
                  /\ R[i].delta.content = << >>
            /\ \A i \in 1..Len(A) :
                  /\ DOMAIN A[i].delta = {"role", "reasoning_content", "content"}
                  /\ A[i].delta.role = "assistant"
                  /\ A[i].delta.content = AnswerTextsOf(clRead)[i]

\* ------------------------------------------------ ConfigManager, singleton

\* A step of the model is what one thread does between two points where
\* another thread may run and see or change _instance or _lock.

\* Thread t calls ConfigManager.initialize() or ConfigManager.instance()
ManagerCall(t) ==
    /\ mgrPc[t] = "idle"
    /\ \E op \in {"initialize", "instance"} :
        /\ mgrOp' = [mgrOp EXCEPT ![t] = op]
        /\ mgrPc' = [mgrPc EXCEPT ![t] = IF op = "instance" THEN "instance_check"
                                                           ELSE "check"]
    /\ UNCHANGED <<mgrInstance, mgrLock, mgrBuilt, mgrReturned>>
    /\ UNCHANGED exceptSingleton

\* instance(): if cls._instance is None: cls.initialize()
ManagerInstanceCheck(t) ==
    /\ mgrPc[t] = "instance_check"
    /\ mgrPc' = [mgrPc EXCEPT ![t] = IF mgrInstance = 0 THEN "check" ELSE "return"]
    /\ UNCHANGED <<mgrInstance, mgrLock, mgrOp, mgrBuilt, mgrReturned>>
    /\ UNCHANGED exceptSingleton

\* Where initialize() goes back to: its caller, or the return of instance()
AfterInitialize(t) == IF mgrOp[t] = "instance" THEN "return" ELSE "idle"

\* initialize(): the first `if cls._instance is None`, without the lock
ManagerCheck(t) ==
    /\ mgrPc[t] = "check"
    /\ mgrPc' = [mgrPc EXCEPT ![t] = IF mgrInstance = 0 THEN "acquire"
                                                        ELSE AfterInitialize(t)]
    /\ UNCHANGED <<mgrInstance, mgrLock, mgrOp, mgrBuilt, mgrReturned>>
    /\ UNCHANGED exceptSingleton

\* with cls._lock: the thread waits until the lock is free and takes it
ManagerAcquire(t) ==
    /\ mgrPc[t] = "acquire"
    /\ mgrLock = Free
    /\ mgrLock' = t
    /\ mgrPc' = [mgrPc EXCEPT ![t] = "locked"]
    /\ UNCHANGED <<mgrInstance, mgrOp, mgrBuilt, mgrReturned>>
    /\ UNCHANGED exceptSingleton

\* ManagerLockedCheck without the second `if cls._instance is None`.
ManagerLockedCheck_NoSecondCheck(t) ==
    /\ mgrPc[t] = "locked"
    /\ mgrPc' = [mgrPc EXCEPT ![t] = "construct"]
    /\ UNCHANGED <<mgrInstance, mgrLock, mgrOp, mgrBuilt, mgrReturned>>
    /\ UNCHANGED exceptSingleton

\* The second `if cls._instance is None`, under the lock; when it is false the
\* with block ends and the lock is released
ManagerLockedCheck(t) ==
    /\ mgrPc[t] = "locked"
    /\ IF mgrInstance = 0
       THEN /\ mgrPc' = [mgrPc EXCEPT ![t] = "construct"]
            /\ UNCHANGED mgrLock
       ELSE /\ mgrPc' = [mgrPc EXCEPT ![t] = AfterInitialize(t)]
            /\ mgrLock' = Free
    /\ UNCHANGED <<mgrInstance, mgrOp, mgrBuilt, mgrReturned>>
    /\ UNCHANGED exceptSingleton

\* ConfigManager() completes and cls._instance is assigned
ManagerConstructed(t) ==
    /\ mgrPc[t] = "construct"
    /\ LET object == Cardinality(mgrBuilt) + 1
       IN  /\ mgrInstance' = object
           /\ mgrBuilt' = mgrBuilt \cup {object}
    /\ mgrPc' = [mgrPc EXCEPT ![t] = "release"]
    /\ UNCHANGED <<mgrLock, mgrOp, mgrReturned>>
    /\ UNCHANGED exceptSingleton

\* ConfigManager() raises ConfigLoadError: the with block releases the lock
\* and the exception ends the call
ManagerConstructFails(t) ==
    /\ mgrPc[t] = "construct"
    /\ mgrLock' = Free
    /\ mgrPc' = [mgrPc EXCEPT ![t] = "idle"]
    /\ UNCHANGED <<mgrInstance, mgrOp, mgrBuilt, mgrReturned>>
    /\ UNCHANGED exceptSingleton

\* The with block ends after the assignment
ManagerRelease(t) ==
    /\ mgrPc[t] = "release"
    /\ mgrLock' = Free
    /\ mgrPc' = [mgrPc EXCEPT ![t] = AfterInitialize(t)]
    /\ UNCHANGED <<mgrInstance, mgrOp, mgrBuilt, mgrReturned>>
    /\ UNCHANGED exceptSingleton

\* instance(): return cls._instance
ManagerReturn(t) ==
    /\ mgrPc[t] = "return"
    /\ mgrReturned' = mgrReturned \cup {mgrInstance}
    /\ mgrPc' = [mgrPc EXCEPT ![t] = "idle"]
    /\ UNCHANGED <<mgrInstance, mgrLock, mgrOp, mgrBuilt>>
    /\ UNCHANGED exceptSingleton

\* What a thread inside a call does next, the wait for the lock apart
ManagerProceed(t) ==
    \/ ManagerInstanceCheck(t)
    \/ ManagerCheck(t)
    \/ ManagerLockedCheck(t)
    \/ ManagerConstructed(t)
    \/ ManagerConstructFails(t)
    \/ ManagerRelease(t)
    \/ ManagerReturn(t)

SingletonNext ==
    \/ \E t \in ManagerThreads : ManagerCall(t)
    \/ \E t \in ManagerThreads : ManagerInstanceCheck(t)
    \/ \E t \in ManagerThreads : ManagerCheck(t)
    \/ \E t \in ManagerThreads : ManagerAcquire(t)
    \/ \E t \in ManagerThreads : ManagerLockedCheck(t)
    \/ \E t \in ManagerThreads : ManagerConstructed(t)
    \/ \E t \in ManagerThreads : ManagerConstructFails(t)
    \/ \E t \in ManagerThreads : ManagerRelease(t)
    \/ \E t \in ManagerThreads : ManagerReturn(t)

SpecSingleton == IdleInit /\ [][SingletonNext]_vars

\* Every thread inside a call goes on running, and a thread waiting for a lock
\* that is freed again and again gets it.
SpecSingletonFair ==
    /\ SpecSingleton
    /\ \A t \in ManagerThreads : WF_vars(ManagerProceed(t))
    /\ \A t \in ManagerThreads : SF_vars(ManagerAcquire(t))

\* One object at most is ever constructed, instance() returns it and never None
OneInstance ==
    /\ Cardinality(mgrBuilt) <= 1
    /\ mgrReturned \subseteq mgrBuilt
    /\ Cardinality(mgrReturned) <= 1
    /\ mgrInstance # 0 => mgrBuilt = {mgrInstance}

LoadBegin ==
    /\ ldPc = "idle"
    /\ ldFallback' \in BOOLEAN
    /\ ldPc' = "loop"
    /\ UNCHANGED <<ldAttempt, ldLastException, ldOutcome, ldHistory>>
    /\ UNCHANGED exceptLoad

\* loader(config_path) returns a config: return config
LoadReturnsConfig ==
    /\ ldPc = "loop"
    /\ ldAttempt < max_retries
    /\ \E c \in LoadedConfigs :
        /\ ldHistory' = Append(ldHistory, [loader |-> c, fallback |-> "not called"])
        /\ ldOutcome' = [kind |-> "return", config |-> c]
    /\ ldAttempt' = ldAttempt + 1
    /\ ldPc' = "ended"
    /\ UNCHANGED <<ldFallback, ldLastException>>
    /\ UNCHANGED exceptLoad

\* loader(config_path) returns None: the fallback's config is returned, or the
\* ConfigLoadError raised by the fallback or by line 100 is caught and the
\* loop goes on
LoadReturnsNone ==
    /\ ldPc = "loop"
    /\ ldAttempt < max_retries
    /\ ldAttempt' = ldAttempt + 1
    /\ IF ldFallback
       THEN \E made \in BOOLEAN :
               IF made
               THEN /\ ldHistory' = Append(ldHistory,
                                       [loader |-> "None", fallback |-> "returns"])
                    /\ ldOutcome' = [kind |-> "return", config |-> DefaultConfig]
                    /\ ldPc' = "ended"
                    /\ UNCHANGED ldLastException
               ELSE /\ ldHistory' = Append(ldHistory,
                                       [loader |-> "None", fallback |-> "raises"])
                    /\ ldLastException' = "ConfigLoadError"
                    /\ UNCHANGED <<ldPc, ldOutcome>>
       ELSE /\ ldHistory' = Append(ldHistory,
                               [loader |-> "None", fallback |-> "not called"])
            /\ ldLastException' = "ConfigLoadError"
            /\ UNCHANGED <<ldPc, ldOutcome>>
    /\ UNCHANGED ldFallback
    /\ UNCHANGED exceptLoad

\* loader raises ConfigLoadError: last_exception = e; continue
LoadRaisesConfigLoadError ==
    /\ ldPc = "loop"
    /\ ldAttempt < max_retries
    /\ ldAttempt' = ldAttempt + 1
    /\ ldHistory' = Append(ldHistory,
                       [loader |-> "ConfigLoadError", fallback |-> "not called"])
    /\ ldLastException' = "ConfigLoadError"
    /\ UNCHANGED <<ldPc, ldFallback, ldOutcome>>
    /\ UNCHANGED exceptLoad

\* LoadRaisesOther with `continue` in place of `break`.
LoadRaisesOther_Continues ==
    /\ ldPc = "loop"
    /\ ldAttempt < max_retries
    /\ ldAttempt' = ldAttempt + 1
    /\ ldHistory' = Append(ldHistory,
                       [loader |-> "OtherError", fallback |-> "not called"])
    /\ ldLastException' = "OtherError"
    /\ UNCHANGED <<ldPc, ldFallback, ldOutcome>>
    /\ UNCHANGED exceptLoad

\* loader raises another exception: last_exception = e; break
LoadRaisesOther ==
    /\ ldPc = "loop"
    /\ ldAttempt < max_retries
    /\ ldAttempt' = ldAttempt + 1
    /\ ldHistory' = Append(ldHistory,
                       [loader |-> "OtherError", fallback |-> "not called"])
    /\ ldLastException' = "OtherError"
    /\ ldPc' = "after"
    /\ UNCHANGED <<ldFallback, ldOutcome>>
    /\ UNCHANGED exceptLoad

\* After the loop: if last_exception: raise ConfigLoadError(...); else the
\* function ends and returns None
LoadAfterLoop ==
    /\ \/ ldPc = "after"
       \/ ldPc = "loop" /\ ldAttempt = max_retries
    /\ ldOutcome' = IF ldLastException # "None"
                    THEN [kind |-> "raise", error |-> "ConfigLoadError"]
                    ELSE [kind |-> "return", config |-> "None"]
    /\ ldPc' = "ended"
    /\ UNCHANGED <<ldAttempt, ldFallback, ldLastException, ldHistory>>
    /\ UNCHANGED exceptLoad

LoadNext ==
    \/ LoadBegin
    \/ LoadReturnsConfig
    \/ LoadReturnsNone
    \/ LoadRaisesConfigLoadError
    \/ LoadRaisesOther
    \/ LoadAfterLoop

SpecLoad == IdleInit /\ [][LoadNext]_vars

\* The loader call ended with a ConfigLoadError reaching the except clause:
\* raised by the loader, by the fallback, or by line 100 for a missing file
EndedInConfigLoadError(h) ==
    \/ h.loader = "ConfigLoadError"
    \/ h.loader = "None" /\ h.fallback # "returns"

\* C28: the loader is called at most max_retries times and the call ends; a
\* loader call is followed by another only after a ConfigLoadError; the call
\* returns the first config the loader yields, or the fallback's when the
\* loader reports the file missing and a fallback is given; otherwise it raises
\* ConfigLoadError; it never returns None.
C28_LoadTerminates ==
    /\ Len(ldHistory) = ldAttempt
    /\ ldAttempt <= max_retries
    /\ ldPc \in {"loop", "after"} => ENABLED LoadNext
    /\ \A i \in 1..(Len(ldHistory) - 1) : EndedInConfigLoadError(ldHistory[i])
    /\ ldPc = "ended" =>
          LET last == Last(ldHistory)
          IN  /\ ldOutcome.kind \in {"return", "raise"}
              /\ ldOutcome.kind = "return" =>
                    /\ ldOutcome.config # "None"
                    /\ \/ last.loader \in LoadedConfigs /\ ldOutcome.config = last.loader
                       \/ /\ last.loader = "None" /\ ldFallback
                          /\ last.fallback = "returns"
                          /\ ldOutcome.config = DefaultConfig
              /\ ldOutcome.kind = "raise" =>
                    /\ ldOutcome.error = "ConfigLoadError"
                    /\ \/ last.loader = "OtherError"
                       \/ Len(ldHistory) = max_retries /\ EndedInConfigLoadError(last)
    /\ (\E i \in 1..Len(ldHistory) : ldHistory[i].loader \in LoadedConfigs) =>
          ldPc = "ended" /\ ldOutcome.kind = "return"

\* C28 witness: two ConfigLoadErrors, then the loader reports the file missing
\* and the fallback's config is returned.
C28_Witness ==
    /\ ldPc = "ended"
    /\ Len(ldHistory) = max_retries
    /\ ldHistory[1].loader = "ConfigLoadError"
    /\ ldHistory[2].loader = "ConfigLoadError"
    /\ ldOutcome = [kind |-> "return", config |-> DefaultConfig]

\* ------------------------------------------ ConfigManager: update and get

\* Every method below runs under self._lock from its first line to its last,
\* so each call is one step.

\* update_system_config(config): the attribute is assigned, then the file is
\* saved; save_system_config returns True or raises ConfigSaveError, which
\* the except clause logs and re-raises
UpdateSystemConfig ==
    /\ \E config \in SystemConfigs : \E saves \in BOOLEAN :
        /\ cfgSystem' = config
        /\ savedSystem' = IF saves THEN config ELSE savedSystem
        /\ cfgLast' = [op |-> "update_system_config", config |-> config,
                       outcome |-> IF saves THEN "True" ELSE "ConfigSaveError"]
    /\ UNCHANGED <<cfgModel, savedModel>>
    /\ UNCHANGED exceptUpdate

\* update_model_config(config)
UpdateModelConfig ==
    /\ \E config \in ModelConfigs : \E saves \in BOOLEAN :
        /\ cfgModel' = config
        /\ savedModel' = IF saves THEN config ELSE savedModel
        /\ cfgLast' = [op |-> "update_model_config", config |-> config,
                       outcome |-> IF saves THEN "True" ELSE "ConfigSaveError"]
    /\ UNCHANGED <<cfgSystem, savedSystem>>
    /\ UNCHANGED exceptUpdate

\* get_system_config()
GetSystemConfig ==
    /\ cfgLast' = [op |-> "get_system_config", config |-> cfgSystem,
                   outcome |-> "returned"]
    /\ UNCHANGED <<cfgSystem, cfgModel, savedSystem, savedModel>>
    /\ UNCHANGED exceptUpdate

\* get_model_config()
GetModelConfig ==
    /\ cfgLast' = [op |-> "get_model_config", config |-> cfgModel,
                   outcome |-> "returned"]
    /\ UNCHANGED <<cfgSystem, cfgModel, savedSystem, savedModel>>
    /\ UNCHANGED exceptUpdate

UpdateNext ==
    \/ UpdateSystemConfig
    \/ UpdateModelConfig
    \/ GetSystemConfig
    \/ GetModelConfig

SpecUpdate == IdleInit /\ [][UpdateNext]_vars

\* C29: after any sequence of updates, successful or failed, what
\* get_system_config / get_model_config returns is the configuration most
\* recently saved successfully.
C29_GetReturnsLastSaved ==
    /\ cfgLast.op = "get_system_config" => cfgLast.config = savedSystem
    /\ cfgLast.op = "get_model_config" => cfgLast.config = savedModel

\* --------------------------------------------------- io.py: file and cache

\* Loads and saves of one process run one at a time; the file can be rewritten
\* from outside at any moment, also between the read of a load and the stat()
\* of its cache.set.

\* load_system_config: the cache entry's mtime is the file's; it is returned
LoadFromCache ==
    /\ ioLoad.pc = "idle"
    /\ ioCache.kind = "entry"
    /\ ioCache.last_modified = fileMtime
    /\ ioLast' = [op |-> "load", config |-> ioCache.config, cached |-> TRUE,
                  file |-> fileContent, after |-> ioLast.op,
                  saved |-> IF ioLast.op = "save" THEN ioLast.config ELSE "none"]
    /\ UNCHANGED <<fileContent, fileMtime, ioCache, ioLoad>>
    /\ UNCHANGED exceptIo

\* load_system_config: no entry, or one with another mtime; the file is opened
\* and parsed
LoadReadsFile ==
    /\ ioLoad.pc = "idle"
    /\ IF ioCache.kind = "entry" THEN ioCache.last_modified # fileMtime ELSE TRUE
    /\ ioLoad' = [pc |-> "parsed", config |-> FromJson(fileContent),
                  after |-> ioLast.op,
                  saved |-> IF ioLast.op = "save" THEN ioLast.config ELSE "none"]
    /\ UNCHANGED <<fileContent, fileMtime, ioCache, ioLast>>
    /\ UNCHANGED exceptIo

\* system_config_cache.set(config_path, config): the entry takes the mtime
\* the file has now; return config
LoadCachesAndReturns ==
    /\ ioLoad.pc = "parsed"
    /\ ioCache' = [kind |-> "entry", config |-> ioLoad.config,
                   last_modified |-> fileMtime]
    /\ ioLast' = [op |-> "load", config |-> ioLoad.config, cached |-> FALSE,
                  file |-> fileContent, after |-> ioLoad.after,
                  saved |-> ioLoad.saved]
    /\ ioLoad' = [pc |-> "idle"]
    /\ UNCHANGED <<fileContent, fileMtime>>
    /\ UNCHANGED exceptIo

\* save_system_config(config, config_path) succeeds: temp file, os.replace,
\* cache.clear
SaveConfig ==
    /\ ioLoad.pc = "idle"
    /\ fileMtime < MaxWrites
    /\ \E config \in FileConfigs :
        /\ fileContent' = ToJson(config)
        /\ ioLast' = [op |-> "save", config |-> config]
    /\ fileMtime' = fileMtime + 1
    /\ ioCache' = [kind |-> "none"]
    /\ UNCHANGED ioLoad
    /\ UNCHANGED exceptIo

\* The file is rewritten from outside; its modification time changes
ExternalWrite ==
    /\ fileMtime < MaxWrites
    /\ \E config \in FileConfigs : fileContent' = ToJson(config)
    /\ fileMtime' = fileMtime + 1
    /\ ioLast' = IF ioLast.op = "save" THEN [op |-> "rewritten"] ELSE ioLast
    /\ UNCHANGED <<ioCache, ioLoad>>
    /\ UNCHANGED exceptIo

IoNext ==
    \/ LoadFromCache
    \/ LoadReadsFile
    \/ LoadCachesAndReturns
    \/ SaveConfig
    \/ ExternalWrite

SpecIo == IdleInit /\ [][IoNext]_vars

\* C30: a load that returns the cached object returns what the file holds
\* (the entry's mtime is the file's and the entry is not stale), and the load
\* that follows a successful save returns the configuration saved.
C30_CacheNeverStale ==
    /\ (ioLast.op = "load" /\ ioLast.cached) =>
          ioLast.config = FromJson(ioLast.file)
    /\ (ioLast.op = "load" /\ ioLast.after = "save") =>
          ioLast.config = ioLast.saved

\* ------------------------------------------------- system_config.py: Proxy

\* Proxy(proxy_open=..., proxy_address=...): the model validator runs on the
\* model being constructed
ValidateProxy ==
    /\ proxyLast.op = "none"
    /\ \E proxy_open \in BOOLEAN, proxy_address \in ProxyAddresses :
        proxyLast' = [op |-> "validate", proxy_open |-> proxy_open,
                      proxy_address |-> proxy_address,
                      outcome |-> validate_proxy(proxy_open, proxy_address)]
    /\ UNCHANGED exceptProxy

ProxyNext == ValidateProxy

SpecProxy == IdleInit /\ [][ProxyNext]_vars

\* An address host:port: one colon, and after it a text of digits whose value
\* is between 1 and 65535
HostAndPort(address) ==
    LET colon == {i \in 1..Len(address) : address[i] = ":"}
    IN  /\ Cardinality(colon) = 1
        /\ LET port == SubSeq(address, (CHOOSE i \in colon : TRUE) + 1, Len(address))
           IN  /\ IsDigit(port)
               /\ IntOf(port) >= 1
               /\ IntOf(port) <= 65535

\* C31: with proxy_open the validator accepts exactly the addresses host:port
\* with a numeric port from 1 to 65535 (port 0 and ports above 65535 are
\* rejected); without proxy_open every address is accepted.
C31_ProxyPortRange ==
    proxyLast.op = "validate" =>
        IF proxyLast.proxy_open
        THEN (proxyLast.outcome = "returned") <=> HostAndPort(proxyLast.proxy_address)
        ELSE proxyLast.outcome = "returned"

====
